---- MODULE Spec2Model ----
(***************************************************************************)
(* Model of the speech-to-text pipeline of STT_shinai:                     *)
(*   - STTEngine._load_model, the degradation ladder of                    *)
(*     backend/core/engine.py;                                             *)
(*   - STTEngine.transcribe / transcribe_microphone (engine.py) and        *)
(*     SpeechToText.transcribe / transcribe_from_microphone and the two    *)
(*     HTTP handlers (backend/app.py), with the temporary files they       *)
(*     create and delete.                                                  *)
(*   - normalize_audio and the extension checks of backend/core/utils.py;  *)
(*   - test_whisper_model, the loader of tests/test_model.py.              *)
(* Specifications: SpecLoad (one construction; SpecLoadFair with the       *)
(* constructor running to its end), SpecTranscribe (one request),          *)
(* SpecServe (a construction, then status requests and one request),       *)
(* SpecConcurrent (two requests in flight), SpecClassify (the extension    *)
(* checks on one path), SpecNormalize (one buffer normalized).             *)
(***************************************************************************)
EXTENDS Integers, Sequences, FiniteSets, TLC

VARIABLES
    \* ---- model loading: STTEngine (engine.py 34-175), SpeechToText (app.py 19-61) ----
    loader,          \* which class is being constructed
    l_pc,            \* position inside the constructor
    model_size,      \* self.model_size
    use_gpu,         \* self.use_gpu (STTEngine), force_gpu (SpeechToText)
    device,          \* self.device
    compute_type,    \* self.compute_type
    cuda_probe,      \* what the accelerator probe meets on this host
    instantiate,     \* outcome of the n-th WhisperModel(...) call of this load
    success,         \* local success
    error_messages,  \* local error_messages
    fallback_configs,\* local fallback_configs
    fb_idx,          \* position of the for loop over fallback_configs
    model,           \* self.model: the kwargs of the instantiated WhisperModel
    attempts,        \* history: every WhisperModel(...) call made, in order
    requested,       \* history: the constructor arguments
    \* ---- one transcription request (engine.py 198-338, app.py 199-269, 371-508) ----
    entry,           \* the operation the caller invoked
    t_pc,            \* position inside the request
    t_status,        \* the transcribe call: idle, running, returned, raised
    audio_input,     \* transcribe's argument: a path, or Buffer for an array
    audio_path,      \* engine.py audio_path / app.py audio_file
    temp_file,       \* engine.py temp_file
    temp_path,       \* app.py temp_filename (microphone), temp_path (handlers)
    disk,            \* the files that exist
    seg_kind,        \* what model.transcribe returned: a generator or a list
    segments,        \* what the segment sequence still yields
    yielded,         \* history: the segments the inference produced
    text,            \* the text returned
    segments_count,  \* details["segments_count"]
    error,           \* the exception in flight or raised
    extracted,       \* history: the path a successful extraction returned
    events,          \* history: file creations and removals, with their frame
    result,          \* how the request ended
    \* ---- what a request passes and reports (engine.py 215-225, 252-261; utils.py 40-94) ----
    kwargs,          \* engine.py **kwargs: the caller's overrides
    transcribe_params, \* the keyword arguments given to model.transcribe
    details,         \* the configuration part of the details dict
    empty,           \* the files written with zero bytes
    conversion,      \* what convert_video_to_audio returned
    \* ---- get_status (engine.py 344-354, app.py 94-104) ----
    status,          \* the last status snapshot returned
    \* ---- classification by extension (utils.py 153-178, engine.py 272-275, app.py 150-167) ----
    file_path,       \* the path classified
    verdict,         \* what each check answered for file_path
    \* ---- requests in flight together, by request (engine.py 198-294, app.py 169-242, 371-508) ----
    c_entry,         \* the operation invoked
    c_pc,            \* position inside the request
    c_input,         \* the file given: a caller's path, an array, an upload's path
    c_audio,         \* audio_path / audio_file
    c_temp,          \* engine.py temp_file, app.py temp_path
    c_extracted,     \* the path the extraction returned
    c_made,          \* the temporary files the request made and has not removed
    c_heard,         \* whose audio the inference read
    c_error,         \* the exception raised
    c_disk,          \* the files that exist, each with the request that wrote it last
    c_hits,          \* history: writes and removals of a file another request holds
    \* ---- normalize_audio (utils.py 97-122) ----
    audio_data,      \* the buffer given
    sample_rate,     \* its rate
    normalized,      \* what normalize_audio returned for it
    renormalized,    \* what normalize_audio returned for its own output
    n_pc             \* how often the buffer has been normalized

loadVars == <<loader, l_pc, model_size, use_gpu, device, compute_type, cuda_probe,
              instantiate, success, error_messages, fallback_configs, fb_idx,
              model, attempts, requested>>

transVars == <<entry, t_pc, t_status, audio_input, audio_path, temp_file,
               temp_path, disk, seg_kind, segments, yielded, text, segments_count,
               error, extracted, events, result>>

reqVars == <<kwargs, transcribe_params, details, empty, conversion>>

classVars == <<file_path, verdict>>

\* The variables no load and no request step writes.
concVars == <<c_entry, c_pc, c_input, c_audio, c_temp, c_extracted, c_made,
              c_heard, c_error, c_disk, c_hits>>

normVars == <<audio_data, sample_rate, normalized, renormalized, n_pc>>

otherVars == <<classVars, concVars, normVars>>

None == "None"

\* self.model before any WhisperModel has been instantiated.
NoModel ==
    [model_size |-> None, device |-> None, compute_type |-> None,
     cpu_threads |-> None]

----------------------------------------------------------------------------
(* STTEngine._load_model                                                   *)

\* The longest ladder: preferred, three secondary tiers, last resort.
MaxAttempts == 5

ModelSizes == {"tiny", "base", "small", "medium", "large-v1", "large-v2", "large-v3"}

\* engine.py 85: the sizes that get int8 on CPU.
LargeSizes == {"medium", "large-v1", "large-v2", "large-v3"}

\* engine.py 50: 'cuda', 'cpu', 'cuda:0' are the documented manual devices.
Devices == {"cuda", "cpu", "cuda:0"}

\* engine.py 51
ComputeTypes == {"float16", "float32", "int8", "int8_float16"}

\* engine.py 177-196: what the probe meets.  The flag is false (180), the
\* flag raises (180), the tensor allocation raises (186), the arithmetic
\* raises (187), the release raises (188), or every step works.
ProbeOutcomes ==
    {"ok", "flag_false", "flag_raises", "alloc_raises", "arith_raises",
     "release_raises"}

\* The steps of the liveness test, inside the inner try.
LivenessSteps == {"alloc_raises", "arith_raises", "release_raises"}

\* A probe without the inner handler: an exception of the liveness test
\* leaves the probe.
Probe_Uncaught(met) ==
    CASE met = "ok" -> "True"
      [] met = "flag_false" -> "False"
      [] met = "flag_raises" -> "False"
      [] met \in LivenessSteps -> "raise"

\* engine.py 177-196: "True", "False", or "raise" when an exception leaves
\* the function.  The inner except (191-193) and the outer except (194-196)
\* both return False.
Probe(met) ==
    CASE met = "ok" -> "True"
      [] met = "flag_false" -> "False"
      [] met \in LivenessSteps -> "False"
      [] met = "flag_raises" -> "False"

_is_cuda_available == Probe(cuda_probe) = "True"

\* engine.py 77: the probe is called when self.use_gpu is true (`and`); an
\* exception leaving it would leave the constructor.
ResolveRaises == device = None /\ use_gpu /\ Probe(cuda_probe) = "raise"

\* A device choice that takes the GPU without asking the probe.
ResolveDevice_IgnoreProbe(dev) ==
    IF dev = None
    THEN (IF use_gpu THEN "cuda" ELSE "cpu")
    ELSE dev

\* engine.py 76-77
ResolveDevice(dev) ==
    IF dev = None
    THEN (IF use_gpu /\ _is_cuda_available THEN "cuda" ELSE "cpu")
    ELSE dev

\* engine.py 80-85
ResolveComputeType(dev, ct, size) ==
    IF ct # None THEN ct
    ELSE IF dev = "cuda" THEN "float16"
    ELSE IF size \in LargeSizes THEN "int8" ELSE "int8_float16"

\* engine.py 101-102, 141-142: cpu_threads is passed only when device == "cpu".
Kwargs(size, dev, ct) ==
    [model_size |-> size, device |-> dev, compute_type |-> ct,
     cpu_threads |-> IF dev = "cpu" THEN "self.cpu_threads" ELSE None]

\* engine.py 162: the last resort passes no cpu_threads.
TinyKwargs ==
    [model_size |-> "tiny", device |-> "cpu", compute_type |-> "int8",
     cpu_threads |-> None]

\* engine.py 114-128
FallbackConfigs(dev) ==
    IF dev = "cuda"
    THEN << [device |-> "cuda", compute_type |-> "int8_float16"],
            [device |-> "cuda", compute_type |-> "int8"],
            [device |-> "cpu", compute_type |-> "int8"] >>
    ELSE << [device |-> "cpu", compute_type |-> "int8_float16"],
            [device |-> "cpu", compute_type |-> "int8"] >>

\* The outcome of the next WhisperModel(...) call.
NextOutcome == instantiate[Len(attempts) + 1]

Attempted(kw, ok) == Append(attempts, [kwargs |-> kw, ok |-> ok])

\* A load that keeps only the latest failure instead of the whole history.
Accumulate_KeepLast(msgs, e) == << e >>

\* engine.py 110, 156, 171: error_messages.append(error_message)
Accumulate(msgs, e) == Append(msgs, e)

\* engine.py 108-110
PrimaryError(dev, ct) == [stage |-> "primary", device |-> dev, compute_type |-> ct]

\* engine.py 154-156
FallbackError(dev, ct) == [stage |-> "fallback", device |-> dev, compute_type |-> ct]

\* engine.py 169-171
TinyError == [stage |-> "tiny", device |-> "cpu", compute_type |-> "int8"]

\* A fallback that loads but leaves self.device / self.compute_type as they were.
AfterFallback_Stale(cfg) == [device |-> device, compute_type |-> compute_type]

\* engine.py 147-148: a fallback that loads becomes the engine's configuration.
AfterFallback(cfg) == [device |-> cfg.device, compute_type |-> cfg.compute_type]

\* The guard of the last resort with its size test inverted.
LastResortApplies_Inverted == ~success /\ model_size = "tiny"

\* The guard of the last resort without its size test.
LastResortApplies_Always == ~success

\* engine.py 159: the guard of the last resort.
LastResortApplies == ~success /\ model_size # "tiny"

EngineInit ==
    /\ loader = "STTEngine"
    /\ l_pc = "resolve"
    /\ model_size \in ModelSizes
    /\ use_gpu \in BOOLEAN
    /\ device \in Devices \cup {None}
    /\ compute_type \in ComputeTypes \cup {None}
    /\ cuda_probe \in ProbeOutcomes
    /\ instantiate \in [1..MaxAttempts -> BOOLEAN]
    /\ success = FALSE
    /\ error_messages = << >>
    /\ fallback_configs = << >>
    /\ fb_idx = 1
    /\ model = NoModel
    /\ attempts = << >>
    /\ requested = [model_size |-> model_size, device |-> device,
                    compute_type |-> compute_type]

\* engine.py 73-89
Resolve ==
    /\ l_pc = "resolve"
    /\ IF ResolveRaises
       THEN /\ l_pc' = "raised"
            /\ UNCHANGED <<device, compute_type>>
       ELSE /\ device' = ResolveDevice(device)
            /\ compute_type' = ResolveComputeType(device', compute_type, model_size)
            /\ l_pc' = "primary"
    /\ UNCHANGED <<loader, model_size, use_gpu, cuda_probe, instantiate,
                   success, error_messages, fallback_configs, fb_idx, model,
                   attempts, requested>>
    /\ UNCHANGED <<transVars, reqVars, status, otherVars>>

\* engine.py 91-128: the primary attempt, and on failure the choice of ladder.
PrimaryAttempt ==
    /\ l_pc = "primary"
    /\ LET kw == Kwargs(model_size, device, compute_type)
           ok == NextOutcome
       IN /\ attempts' = Attempted(kw, ok)
          /\ IF ok
             THEN /\ model' = kw
                  /\ success' = TRUE
                  /\ l_pc' = "loaded"
                  /\ UNCHANGED <<error_messages, fallback_configs>>
             ELSE /\ error_messages' =
                        Accumulate(error_messages, PrimaryError(device, compute_type))
                  /\ fallback_configs' = FallbackConfigs(device)
                  /\ l_pc' = "fallback"
                  /\ UNCHANGED <<model, success>>
    /\ UNCHANGED <<loader, model_size, use_gpu, device, compute_type,
                   cuda_probe, instantiate, fb_idx, requested>>
    /\ UNCHANGED <<transVars, reqVars, status, otherVars>>

\* A loop that tries the same configuration again.
NextConfig_Retry(i) == i

\* engine.py 131: the for loop goes on to the next configuration.
NextConfig(i) == i + 1

\* engine.py 131-156: one iteration of the loop over fallback_configs.
FallbackAttempt ==
    /\ l_pc = "fallback"
    /\ fb_idx <= Len(fallback_configs)
    /\ LET cfg == fallback_configs[fb_idx]
           kw == Kwargs(model_size, cfg.device, cfg.compute_type)
           ok == NextOutcome
       IN /\ attempts' = Attempted(kw, ok)
          /\ IF ok
             THEN /\ model' = kw
                  /\ device' = AfterFallback(cfg).device
                  /\ compute_type' = AfterFallback(cfg).compute_type
                  /\ success' = TRUE
                  /\ l_pc' = "loaded"
                  /\ UNCHANGED <<error_messages, fb_idx>>
             ELSE /\ error_messages' =
                        Accumulate(error_messages,
                                   FallbackError(cfg.device, cfg.compute_type))
                  /\ fb_idx' = NextConfig(fb_idx)
                  /\ l_pc' = IF fb_idx' > Len(fallback_configs)
                             THEN "last_resort" ELSE "fallback"
                  /\ UNCHANGED <<model, device, compute_type, success>>
    /\ UNCHANGED <<loader, model_size, use_gpu, cuda_probe, instantiate,
                   fallback_configs, requested>>
    /\ UNCHANGED <<transVars, reqVars, status, otherVars>>

\* engine.py 158-171: the smallest model on (cpu, int8).
TinyAttempt ==
    /\ l_pc = "last_resort"
    /\ LastResortApplies
    /\ LET ok == NextOutcome
       IN /\ attempts' = Attempted(TinyKwargs, ok)
          /\ IF ok
             THEN /\ model' = TinyKwargs
                  /\ model_size' = "tiny"
                  /\ device' = "cpu"
                  /\ compute_type' = "int8"
                  /\ success' = TRUE
                  /\ l_pc' = "loaded"
                  /\ UNCHANGED error_messages
             ELSE /\ error_messages' = Accumulate(error_messages, TinyError)
                  /\ l_pc' = "raised"
                  /\ UNCHANGED <<model, model_size, device, compute_type, success>>
    /\ UNCHANGED <<loader, use_gpu, cuda_probe, instantiate, fallback_configs,
                   fb_idx, requested>>
    /\ UNCHANGED <<transVars, reqVars, status, otherVars>>

\* engine.py 159, 173-175: no last resort for the smallest model.
RaiseNoModel ==
    /\ l_pc = "last_resort"
    /\ ~LastResortApplies
    /\ l_pc' = "raised"
    /\ UNCHANGED <<loader, model_size, use_gpu, device, compute_type,
                   cuda_probe, instantiate, success, error_messages,
                   fallback_configs, fb_idx, model, attempts, requested>>
    /\ UNCHANGED <<transVars, reqVars, status, otherVars>>

----------------------------------------------------------------------------
(* SpeechToText.__init__, the two-step loader of app.py                     *)

\* app.py 63-92: the probe of app.py imports torch inside its try.
SimpleProbeOutcomes == ProbeOutcomes \cup {"import_raises"}

\* app.py 63-92: the inner except (84-86), except ImportError (87-89) and
\* except Exception (90-92) all return False.
SimpleProbe(met) ==
    CASE met = "ok" -> "True"
      [] met = "import_raises" -> "False"
      [] met = "flag_false" -> "False"
      [] met \in LivenessSteps -> "False"
      [] met = "flag_raises" -> "False"

is_cuda_available == SimpleProbe(cuda_probe) = "True"

\* app.py 45, 60: WhisperModel(model_size, device=..., compute_type=...)
SimpleKwargs(size, dev, ct) ==
    [model_size |-> size, device |-> dev, compute_type |-> ct,
     cpu_threads |-> None]

SimpleInit ==
    /\ loader = "SpeechToText"
    /\ l_pc = "gpu_first"
    /\ model_size \in ModelSizes
    /\ use_gpu \in BOOLEAN
    /\ device = None
    /\ compute_type = None
    /\ cuda_probe \in SimpleProbeOutcomes
    /\ instantiate \in [1..MaxAttempts -> BOOLEAN]
    /\ success = FALSE
    /\ error_messages = << >>
    /\ fallback_configs = << >>
    /\ fb_idx = 1
    /\ model = NoModel
    /\ attempts = << >>
    /\ requested = [model_size |-> model_size, device |-> None,
                    compute_type |-> None]

\* A GPU attempt that falls through to the CPU attempt after it has loaded.
AfterGpuAttempt_NoReturn(ok) == "cpu_only"

\* app.py 47-50: `return` after a model has loaded, else on to the CPU attempt.
AfterGpuAttempt(ok) == IF ok THEN "loaded" ELSE "cpu_only"

\* app.py 38-50: the GPU attempt; its failure is printed and dropped.
SimpleGpuAttempt ==
    /\ l_pc = "gpu_first"
    /\ is_cuda_available /\ use_gpu
    /\ LET kw == SimpleKwargs(model_size, "cuda", "float16")
           ok == NextOutcome
       IN /\ attempts' = Attempted(kw, ok)
          /\ device' = "cuda"
          /\ compute_type' = "float16"
          /\ l_pc' = AfterGpuAttempt(ok)
          /\ IF ok
             THEN model' = kw
             ELSE UNCHANGED model
    /\ UNCHANGED <<loader, model_size, use_gpu, cuda_probe, instantiate,
                   success, error_messages, fallback_configs, fb_idx,
                   requested>>
    /\ UNCHANGED <<transVars, reqVars, status, otherVars>>

\* app.py 38: no usable GPU, or none asked for.
SimpleSkipGpu ==
    /\ l_pc = "gpu_first"
    /\ ~(is_cuda_available /\ use_gpu)
    /\ l_pc' = IF SimpleProbe(cuda_probe) = "raise" THEN "raised" ELSE "cpu_only"
    /\ UNCHANGED <<loader, model_size, use_gpu, device, compute_type,
                   cuda_probe, instantiate, success, error_messages,
                   fallback_configs, fb_idx, model, attempts, requested>>
    /\ UNCHANGED <<transVars, reqVars, status, otherVars>>

\* A CPU attempt that changes the device and keeps the GPU's precision.
CpuConfig_SamePrecision == [device |-> "cpu", compute_type |-> "float16"]

\* app.py 53-54, test_model.py 47-48, 54-55
CpuConfig == [device |-> "cpu", compute_type |-> "int8"]

\* app.py 52-61: the CPU attempt; its exception leaves the constructor.
SimpleCpuAttempt ==
    /\ l_pc = "cpu_only"
    /\ LET kw == SimpleKwargs(model_size, CpuConfig.device, CpuConfig.compute_type)
           ok == NextOutcome
       IN /\ attempts' = Attempted(kw, ok)
          /\ device' = CpuConfig.device
          /\ compute_type' = CpuConfig.compute_type
          /\ IF ok
             THEN /\ model' = kw
                  /\ l_pc' = "loaded"
             ELSE /\ l_pc' = "raised"
                  /\ UNCHANGED model
    /\ UNCHANGED <<loader, model_size, use_gpu, cuda_probe, instantiate,
                   success, error_messages, fallback_configs, fb_idx,
                   requested>>
    /\ UNCHANGED <<transVars, reqVars, status, otherVars>>

----------------------------------------------------------------------------
(* test_whisper_model, the loader of tests/test_model.py                    *)

\* test_model.py 80-86: the flag alone is asked; only ImportError is caught,
\* so an exception of the flag leaves the probe, and a GPU that would fail
\* the liveness test counts as usable.
TestProbe(met) ==
    CASE met = "ok" -> "True"
      [] met = "import_raises" -> "False"
      [] met = "flag_false" -> "False"
      [] met \in LivenessSteps -> "True"
      [] met = "flag_raises" -> "raise"

TestInit ==
    /\ loader = "test_whisper_model"
    /\ l_pc = "test_gpu_first"
    /\ model_size \in ModelSizes
    /\ use_gpu \in BOOLEAN
    /\ device = None
    /\ compute_type = None
    /\ cuda_probe \in SimpleProbeOutcomes
    /\ instantiate \in [1..MaxAttempts -> BOOLEAN]
    /\ success = FALSE
    /\ error_messages = << >>
    /\ fallback_configs = << >>
    /\ fb_idx = 1
    /\ model = NoModel
    /\ attempts = << >>
    /\ requested = [model_size |-> model_size, device |-> None,
                    compute_type |-> None]

\* test_model.py 35-44: the GPU attempt; its failure goes on to the CPU
\* attempt inside the handler.
TestGpuAttempt ==
    /\ l_pc = "test_gpu_first"
    /\ TestProbe(cuda_probe) = "True" /\ use_gpu
    /\ LET kw == SimpleKwargs(model_size, "cuda", "float16")
           ok == NextOutcome
       IN /\ attempts' = Attempted(kw, ok)
          /\ device' = "cuda"
          /\ compute_type' = "float16"
          /\ l_pc' = IF ok THEN "loaded" ELSE "test_cpu"
          /\ IF ok
             THEN model' = kw
             ELSE UNCHANGED model
    /\ UNCHANGED <<loader, model_size, use_gpu, cuda_probe, instantiate,
                   success, error_messages, fallback_configs, fb_idx,
                   requested>>
    /\ UNCHANGED <<transVars, reqVars, status, otherVars>>

\* test_model.py 32, 35, 51-58: the probe raised, or no GPU is usable, or
\* none was asked for.
TestSkipGpu ==
    /\ l_pc = "test_gpu_first"
    /\ ~(TestProbe(cuda_probe) = "True" /\ use_gpu)
    /\ l_pc' = IF TestProbe(cuda_probe) = "raise" THEN "raised" ELSE "test_cpu"
    /\ UNCHANGED <<loader, model_size, use_gpu, device, compute_type,
                   cuda_probe, instantiate, success, error_messages,
                   fallback_configs, fb_idx, model, attempts, requested>>
    /\ UNCHANGED <<transVars, reqVars, status, otherVars>>

\* test_model.py 45-50, 60-65: the CPU attempt; its exception leaves the
\* function (49) or ends the process (65).
TestCpuAttempt ==
    /\ l_pc = "test_cpu"
    /\ LET kw == SimpleKwargs(model_size, CpuConfig.device, CpuConfig.compute_type)
           ok == NextOutcome
       IN /\ attempts' = Attempted(kw, ok)
          /\ device' = CpuConfig.device
          /\ compute_type' = CpuConfig.compute_type
          /\ IF ok
             THEN /\ model' = kw
                  /\ l_pc' = "loaded"
             ELSE /\ l_pc' = "raised"
                  /\ UNCHANGED model
    /\ UNCHANGED <<loader, model_size, use_gpu, cuda_probe, instantiate,
                   success, error_messages, fallback_configs, fb_idx,
                   requested>>
    /\ UNCHANGED <<transVars, reqVars, status, otherVars>>

----------------------------------------------------------------------------
(* get_status                                                               *)

\* engine.py 356-369: the accelerator's data when the flag is set, else None.
_get_gpu_info ==
    IF cuda_probe \in {"flag_false", "flag_raises"} THEN None ELSE "gpu_info"

\* A status request that an exception has left.
StatusRaised(e) ==
    [model_size |-> None, device |-> None, compute_type |-> None,
     cpu_threads |-> None, cuda_available |-> FALSE, gpu_info |-> None,
     error |-> e]

\* engine.py 344-354: STTEngine.get_status
GetStatus ==
    /\ loader = "STTEngine"
    /\ l_pc = "loaded"
    /\ status' = IF Probe(cuda_probe) = "raise"
                 THEN StatusRaised("probe")
                 ELSE [model_size |-> model_size,
                       device |-> device,
                       compute_type |-> compute_type,
                       cpu_threads |->
                           IF device = "cpu" THEN "self.cpu_threads" ELSE None,
                       cuda_available |-> _is_cuda_available,
                       gpu_info |-> IF device = "cuda" THEN _get_gpu_info ELSE None,
                       error |-> None]
    /\ UNCHANGED <<loadVars, transVars, reqVars, otherVars>>

\* app.py 94-104: SpeechToText.get_status reports the size only.
SimpleGetStatus ==
    /\ loader = "SpeechToText"
    /\ l_pc = "loaded"
    /\ status' = [model_size |-> model_size,
                  device |-> None,
                  compute_type |-> None,
                  cpu_threads |-> None,
                  cuda_available |-> FALSE,
                  gpu_info |-> None,
                  error |-> None]
    /\ UNCHANGED <<loadVars, transVars, reqVars, otherVars>>

LoadInit == EngineInit \/ SimpleInit \/ TestInit

LoadNext ==
    \/ Resolve
    \/ PrimaryAttempt
    \/ FallbackAttempt
    \/ TinyAttempt
    \/ RaiseNoModel
    \/ SimpleGpuAttempt
    \/ SimpleSkipGpu
    \/ SimpleCpuAttempt
    \/ TestGpuAttempt
    \/ TestSkipGpu
    \/ TestCpuAttempt
    \/ GetStatus
    \/ SimpleGetStatus

----------------------------------------------------------------------------
(* Files, audio inputs and the inference capability                         *)

\* The longest segment sequence the inference capability yields here.
MaxSegments == 2

Path(d, b, n, e) == [dir |-> d, base |-> b, n_audio |-> n, ext |-> e]

\* A local that holds no path (Python None).
NoPath == Path(None, None, 0, None)

\* A numpy array given as audio_input (engine.py 231).
Buffer == Path("memory", "ndarray", 0, None)

\* engine.py 29
SUPPORTED_VIDEO_FORMATS == {".mp4", ".avi", ".mov", ".mkv", ".flv", ".wmv", ".webm"}

\* app.py 165
video_extensions == {".mp4", ".avi", ".mov", ".mkv", ".flv", ".wmv"}

\* The extensions of the files given to a request.
InputExts == {".mp4", ".webm", ".wav"}

\* Files a caller names: dir "tmp" is tempfile.gettempdir(); n_audio counts
\* the "_audio" endings of the stem (clip.wav, clip_audio.wav).
InputPaths ==
    {Path(d, "clip", n, e) : d \in {"tmp", "home"}, n \in {0, 1}, e \in InputExts}

\* app.py 391-392: an upload is saved under its client-given name.
UploadPaths == {Path("tmp", "clip", n, e) : n \in {0, 1}, e \in InputExts}

\* app.py 459-460
BlobPath == Path("tmp", "recorded", 1, ".wav")

\* tempfile.NamedTemporaryFile(suffix=".wav", delete=False): "tmp", eight
\* characters of [a-z0-9_], ".wav"; the eight may end in "_audio".
TempNames == {Path("tmp", "tmpk3x9w2ab", 0, ".wav"), Path("tmp", "tmpq7", 1, ".wav")}

\* utils.py 18
utils_SUPPORTED_VIDEO_FORMATS ==
    {".mp4", ".mkv", ".avi", ".mov", ".wmv", ".flv", ".webm"}

\* utils.py 178
audio_extensions == {".wav", ".mp3", ".flac", ".ogg", ".m4a"}

\* str.lower() on the extensions that occur here.
Lower(e) ==
    CASE e = ".MP4" -> ".mp4"
      [] e = ".WebM" -> ".webm"
      [] e = ".WEBM" -> ".webm"
      [] e = ".Mkv" -> ".mkv"
      [] e = ".WAV" -> ".wav"
      [] e = ".Mp3" -> ".mp3"
      [] OTHER -> e

\* engine.py 272-275
_is_video_file(p) == Lower(p.ext) \in SUPPORTED_VIDEO_FORMATS

\* app.py 150-167
is_video_file(p) == Lower(p.ext) \in video_extensions

\* utils.py 153-164
utils_is_video_file(p) == Lower(p.ext) \in utils_SUPPORTED_VIDEO_FORMATS

\* utils.py 167-178
is_audio_file(p) == Lower(p.ext) \in audio_extensions

\* engine.py 282-284, app.py 185-187: <tempdir>/<stem>_audio.wav
ExtractedAudioPath(p) == Path("tmp", p.base, p.n_audio + 1, ".wav")

\* app.py 235: "_audio.wav" in audio_file and tempfile.gettempdir() in audio_file
LooksLikeExtracted(p) == p.ext = ".wav" /\ p.n_audio >= 1 /\ p.dir = "tmp"

\* Segment texts, as sequences of characters.
SegTexts == { << >>, <<"a">>, <<"b", "c">> }

SegLists == UNION {[1..n -> SegTexts] : n \in 0..MaxSegments}

RECURSIVE Join_Reversed(_)
\* A join that puts the later segments first.
Join_Reversed(segs) ==
    IF Len(segs) = 0 THEN << >>
    ELSE IF Len(segs) = 1 THEN segs[1]
    ELSE Join_Reversed(Tail(segs)) \o <<" ">> \o segs[1]

RECURSIVE Join(_)
\* engine.py 249, app.py 222: " ".join([segment.text for segment in segments])
Join(segs) ==
    IF Len(segs) = 0 THEN << >>
    ELSE IF Len(segs) = 1 THEN segs[1]
    ELSE segs[1] \o <<" ">> \o Join(Tail(segs))

\* What is left of the segment sequence after one full iteration: a generator
\* is exhausted, a list is not.
Consume(segs, kind) == IF kind = "generator" THEN << >> ELSE segs

\* engine.py 257: sum(1 for _ in segments); app.py 229: len(list(segments))
CountSegments(segs) == Len(segs)

Ev(op, p, by) == [op |-> op, path |-> p, by |-> by]

\* os.remove / os.unlink of p by frame `by`: the file goes, or is missing.
Removed(p) == disk \ {p}

RemoveEvent(p, by) ==
    Append(events, Ev(IF p \in disk THEN "delete" ELSE "delete_missing", p, by))

TransInit ==
    /\ entry = None
    /\ t_pc = "idle"
    /\ t_status = "idle"
    /\ audio_input = NoPath
    /\ audio_path = NoPath
    /\ temp_file = NoPath
    /\ temp_path = NoPath
    /\ disk = {}
    /\ seg_kind = None
    /\ segments = << >>
    /\ yielded = << >>
    /\ text = << >>
    /\ segments_count = 0
    /\ error = None
    /\ extracted = NoPath
    /\ events = << >>
    /\ result = "none"

\* A call without keyword arguments.
NoKwargs == [k \in {} |-> None]

\* engine.py 216-222: the defaults of STTEngine.transcribe, for a call
\* without a language on an engine without a default language.
DefaultParams ==
    [beam_size |-> 3,
     language |-> None,
     vad_filter |-> TRUE,
     vad_parameters |-> [min_silence_duration_ms |-> 500],
     condition_on_previous_text |-> FALSE]

\* engine.py 202: the **kwargs a caller gives: none, one default replaced,
\* two replaced, or a parameter the defaults do not name.
Overrides ==
    {NoKwargs,
     [beam_size |-> 1],
     [condition_on_previous_text |-> TRUE,
      vad_parameters |-> [min_silence_duration_ms |-> 1000]],
     [vad_filter |-> FALSE, word_timestamps |-> TRUE]}

\* engine.py 225: dict.update
Update(d, kw) ==
    [k \in DOMAIN d \cup DOMAIN kw |-> IF k \in DOMAIN kw THEN kw[k] ELSE d[k]]

\* app.py 219: the keyword arguments of SpeechToText.transcribe, for a call
\* without a language.
AppParams == [beam_size |-> 5, language |-> None]

\* details before a transcription has built it.
NoConfig == [model_size |-> None, device |-> None, compute_type |-> None]

\* Before convert_video_to_audio has returned.
NoConversion == [path |-> NoPath, ok |-> FALSE]

CallInit ==
    /\ kwargs = NoKwargs
    /\ transcribe_params = NoKwargs
    /\ details = NoConfig
    /\ empty = {}
    /\ conversion = NoConversion

\* Before any status request.
NoStatus ==
    [model_size |-> None, device |-> None, compute_type |-> None,
     cpu_threads |-> None, cuda_available |-> FALSE, gpu_info |-> None,
     error |-> None]

StatusInit == status = NoStatus

\* No path is being classified.
ClassIdle ==
    /\ file_path = NoPath
    /\ verdict = {}

----------------------------------------------------------------------------
(* STTEngine.transcribe and STTEngine.transcribe_microphone                 *)

\* A caller invokes STTEngine.transcribe (engine.py 198-225) on a file it
\* holds or on an array.
CallEngineTranscribe ==
    /\ t_pc = "idle"
    /\ loader = "STTEngine" /\ l_pc = "loaded"
    /\ \E p \in InputPaths \cup {Buffer} :
          /\ audio_input' = p
          /\ disk' = IF p = Buffer THEN {} ELSE {p}
          /\ events' = IF p = Buffer THEN << >> ELSE <<Ev("create", p, "caller")>>
    /\ \E kw \in Overrides :
          /\ kwargs' = kw
          /\ transcribe_params' = Update(DefaultParams, kw)
    /\ entry' = "STTEngine.transcribe"
    /\ t_pc' = "e_input"
    /\ t_status' = "running"
    /\ UNCHANGED <<audio_path, temp_file, temp_path, seg_kind, segments, yielded,
                   text, segments_count, error, extracted, result>>
    /\ UNCHANGED <<loadVars, status, otherVars>>
    /\ UNCHANGED <<details, empty, conversion>>

\* engine.py 326-338: record_audio, then transcribe on the recorded array.
CallEngineMicrophone ==
    /\ t_pc = "idle"
    /\ loader = "STTEngine" /\ l_pc = "loaded"
    /\ entry' = "STTEngine.transcribe_microphone"
    /\ \E recorded \in BOOLEAN, kw \in Overrides :
          /\ kwargs' = kw
          /\ IF recorded
             THEN /\ audio_input' = Buffer
                  /\ transcribe_params' = Update(DefaultParams, kw)
                  /\ t_pc' = "e_input"
                  /\ t_status' = "running"
                  /\ UNCHANGED <<error, result>>
             ELSE /\ error' = "record_audio"
                  /\ result' = "raised"
                  /\ t_pc' = "done"
                  /\ UNCHANGED <<audio_input, t_status, transcribe_params>>
    /\ UNCHANGED <<audio_path, temp_file, temp_path, disk, seg_kind, segments,
                   yielded, text, segments_count, extracted, events>>
    /\ UNCHANGED <<loadVars, status, otherVars>>
    /\ UNCHANGED <<details, empty, conversion>>

\* engine.py 228-237: an array is written to a fresh temporary file.
EInput ==
    /\ t_pc = "e_input"
    /\ IF audio_input = Buffer
       THEN \E name \in TempNames \ disk, written \in BOOLEAN :
               /\ temp_file' = name
               /\ disk' = disk \cup {name}
               /\ events' = Append(events, Ev("create", name, "transcribe"))
               /\ IF written
                  THEN /\ audio_path' = name
                       /\ t_pc' = "e_video"
                       /\ UNCHANGED error
                  ELSE /\ error' = "sf.write"
                       /\ t_pc' = "e_finally"
                       /\ UNCHANGED audio_path
       ELSE /\ audio_path' = audio_input
            /\ t_pc' = "e_video"
            /\ UNCHANGED <<temp_file, disk, events, error>>
    /\ UNCHANGED <<entry, t_status, audio_input, temp_path, seg_kind, segments,
                   yielded, text, segments_count, extracted, result>>
    /\ UNCHANGED <<loadVars, status, otherVars>>
    /\ UNCHANGED reqVars

\* What VideoFileClip(...).audio.write_audiofile(out) can do (engine.py
\* 288-289, app.py 191-192): write the audio; raise having written nothing,
\* or part of the file; return having written a file of zero bytes, or no
\* file at all.
ExtractionOutcomes == {"ok", "fail_clean", "fail_partial", "empty", "missing"}

\* The conversion raised: both extraction functions test nothing else.
ExtractionRaised(outcome) == outcome \in {"fail_clean", "fail_partial"}

\* The conversion left a file at the output path.
LeavesFile(outcome) == outcome \in {"ok", "fail_partial", "empty"}

\* The file at the path after the conversion, if any, has zero bytes.
ZeroBytes(outcome) == outcome = "empty"

\* A file that exists and has content.
Usable(p) == p \in disk /\ p \notin empty

\* engine.py 239-242 with _extract_audio_from_video (277-294): an exception
\* of the conversion becomes RuntimeError; otherwise the output path is
\* returned, whatever is at it.
EVideo ==
    /\ t_pc = "e_video"
    /\ IF _is_video_file(audio_path)
       THEN \E outcome \in ExtractionOutcomes :
               LET out == ExtractedAudioPath(audio_path)
               IN /\ IF LeavesFile(outcome)
                     THEN /\ disk' = disk \cup {out}
                          /\ events' = Append(events, Ev("create", out, "transcribe"))
                     ELSE UNCHANGED <<disk, events>>
                  /\ empty' = IF ZeroBytes(outcome) THEN empty \cup {out} ELSE empty
                  /\ IF ExtractionRaised(outcome)
                     THEN /\ error' = "RuntimeError"
                          /\ t_pc' = "e_finally"
                          /\ UNCHANGED <<audio_path, extracted>>
                     ELSE /\ audio_path' = out
                          /\ extracted' = out
                          /\ t_pc' = "e_infer"
                          /\ UNCHANGED error
       ELSE /\ t_pc' = "e_infer"
            /\ UNCHANGED <<audio_path, extracted, disk, events, error, empty>>
    /\ UNCHANGED <<entry, t_status, audio_input, temp_file, temp_path, seg_kind,
                   segments, yielded, text, segments_count, result>>
    /\ UNCHANGED <<loadVars, status, otherVars>>
    /\ UNCHANGED <<kwargs, transcribe_params, details, conversion>>

\* engine.py 246: self.model.transcribe(audio_path, **transcribe_params)
EInfer ==
    /\ t_pc = "e_infer"
    /\ \/ /\ error' = "inference"
          /\ t_pc' = "e_finally"
          /\ UNCHANGED <<seg_kind, segments, yielded>>
       \/ \E segs \in SegLists, kind \in {"generator", "list"} :
             /\ Usable(audio_path)
             /\ segments' = segs
             /\ yielded' = segs
             /\ seg_kind' = kind
             /\ t_pc' = "e_join"
             /\ UNCHANGED error
    /\ UNCHANGED <<entry, t_status, audio_input, audio_path, temp_file, temp_path,
                   disk, text, segments_count, extracted, events, result>>
    /\ UNCHANGED <<loadVars, status, otherVars>>
    /\ UNCHANGED reqVars

\* engine.py 249: the join iterates the segments; a generator decodes while
\* it is iterated and may raise there.
EJoin ==
    /\ t_pc = "e_join"
    /\ \/ /\ seg_kind = "generator"
          /\ error' = "inference"
          /\ segments' = << >>
          /\ t_pc' = "e_finally"
          /\ UNCHANGED text
       \/ /\ text' = Join(segments)
          /\ segments' = Consume(segments, seg_kind)
          /\ t_pc' = "e_count"
          /\ UNCHANGED error
    /\ UNCHANGED <<entry, t_status, audio_input, audio_path, temp_file, temp_path,
                   disk, seg_kind, yielded, segments_count, extracted, events,
                   result>>
    /\ UNCHANGED <<loadVars, status, otherVars>>
    /\ UNCHANGED reqVars

\* Details that report the size asked for instead of the size loaded.
ReportedConfig_Requested ==
    [model_size |-> requested.model_size, device |-> device,
     compute_type |-> compute_type]

\* engine.py 258-260: "model_size", "device", "compute_type" of the details.
ReportedConfig ==
    [model_size |-> model_size, device |-> device, compute_type |-> compute_type]

\* engine.py 252-265: the details count the segments by iterating again and
\* report the engine's configuration.
ECount ==
    /\ t_pc = "e_count"
    /\ segments_count' = CountSegments(segments)
    /\ segments' = Consume(segments, seg_kind)
    /\ details' = ReportedConfig
    /\ t_pc' = "e_finally"
    /\ UNCHANGED <<entry, t_status, audio_input, audio_path, temp_file, temp_path,
                   disk, seg_kind, yielded, text, error, extracted, events,
                   result>>
    /\ UNCHANGED <<loadVars, status, otherVars>>
    /\ UNCHANGED <<kwargs, transcribe_params, empty, conversion>>

\* engine.py 267-270: the finally clause removes temp_file, and only that.
EFinally ==
    /\ t_pc = "e_finally"
    /\ IF temp_file # NoPath /\ temp_file \in disk
       THEN /\ events' = RemoveEvent(temp_file, "transcribe")
            /\ disk' = Removed(temp_file)
       ELSE UNCHANGED <<disk, events>>
    /\ t_status' = IF error = None THEN "returned" ELSE "raised"
    /\ result' = t_status'
    /\ t_pc' = "done"
    /\ UNCHANGED <<entry, audio_input, audio_path, temp_file, temp_path, seg_kind,
                   segments, yielded, text, segments_count, error, extracted>>
    /\ UNCHANGED <<loadVars, status, otherVars>>
    /\ UNCHANGED reqVars

----------------------------------------------------------------------------
(* SpeechToText.transcribe, transcribe_from_microphone and the HTTP handlers*)

\* Where control goes when SpeechToText.transcribe returns to its caller.
AfterReturn ==
    CASE entry = "SpeechToText.transcribe" -> "done"
      [] entry = "SpeechToText.transcribe_from_microphone" -> "mic_remove"
      [] entry = "transcribe_api" -> "api_respond"
      [] entry = "transcribe_blob" -> "blob_respond"

\* Where control goes when SpeechToText.transcribe raises: app.py 264 has no
\* handler, app.py 429 and 492 catch.
AfterRaise ==
    CASE entry = "SpeechToText.transcribe" -> "done"
      [] entry = "SpeechToText.transcribe_from_microphone" -> "done"
      [] entry = "transcribe_api" -> "api_except"
      [] entry = "transcribe_blob" -> "blob_except"

\* SpeechToText.transcribe raises `err` out of the call.
AppRaise(err) ==
    /\ error' = err
    /\ t_status' = "raised"
    /\ t_pc' = AfterRaise
    /\ result' = IF AfterRaise = "done" THEN "raised" ELSE result

\* app.py 302-312: the CLI calls transcribe on a file the user names.
CallAppTranscribe ==
    /\ t_pc = "idle"
    /\ loader = "SpeechToText" /\ l_pc = "loaded"
    /\ \E p \in InputPaths :
          /\ audio_input' = p
          /\ audio_path' = p
          /\ disk' = {p}
          /\ events' = <<Ev("create", p, "caller")>>
    /\ entry' = "SpeechToText.transcribe"
    /\ t_pc' = "a_video"
    /\ t_status' = "running"
    /\ UNCHANGED <<temp_file, temp_path, seg_kind, segments, yielded, text,
                   segments_count, error, extracted, result>>
    /\ UNCHANGED <<loadVars, status, otherVars>>
    /\ UNCHANGED reqVars

\* app.py 244-264: record, save to a fresh temporary file, call transcribe.
CallAppMicrophone ==
    /\ t_pc = "idle"
    /\ loader = "SpeechToText" /\ l_pc = "loaded"
    /\ entry' = "SpeechToText.transcribe_from_microphone"
    /\ \E outcome \in {"record_fails", "save_fails", "ok"} :
          IF outcome = "record_fails"
          THEN /\ error' = "record_audio"
               /\ result' = "raised"
               /\ t_pc' = "done"
               /\ UNCHANGED <<temp_path, audio_input, audio_path, disk, events,
                              t_status>>
          ELSE \E name \in TempNames \ disk :
                  /\ temp_path' = name
                  /\ disk' = disk \cup {name}
                  /\ events' = Append(events, Ev("create", name, "microphone"))
                  /\ IF outcome = "save_fails"
                     THEN /\ error' = "sf.write"
                          /\ result' = "raised"
                          /\ t_pc' = "done"
                          /\ UNCHANGED <<audio_input, audio_path, t_status>>
                     ELSE /\ audio_input' = name
                          /\ audio_path' = name
                          /\ t_pc' = "a_video"
                          /\ t_status' = "running"
                          /\ UNCHANGED <<error, result>>
    /\ UNCHANGED <<temp_file, seg_kind, segments, yielded, text, segments_count,
                   extracted>>
    /\ UNCHANGED <<loadVars, status, otherVars>>
    /\ UNCHANGED reqVars

\* The upload part of a handler: reject, fail to save, or save and call
\* transcribe on the saved file.
Upload(handler, p) ==
    /\ t_pc = "idle"
    /\ loader = "SpeechToText" /\ l_pc = "loaded"
    /\ entry' = handler
    /\ \E outcome \in {"no_file", "save_fails", "save_fails_partial", "ok"} :
          CASE outcome = "no_file" ->
                 /\ result' = "http_400"
                 /\ t_pc' = "done"
                 /\ UNCHANGED <<temp_path, audio_input, audio_path, disk, events,
                                t_status, error>>
            [] outcome = "save_fails" ->
                 /\ temp_path' = p
                 /\ error' = "file.save"
                 /\ result' = "http_500"
                 /\ t_pc' = "done"
                 /\ UNCHANGED <<audio_input, audio_path, disk, events, t_status>>
            [] outcome = "save_fails_partial" ->
                 /\ temp_path' = p
                 /\ disk' = disk \cup {p}
                 /\ events' = Append(events, Ev("create", p, "handler"))
                 /\ error' = "file.save"
                 /\ result' = "http_500"
                 /\ t_pc' = "done"
                 /\ UNCHANGED <<audio_input, audio_path, t_status>>
            [] outcome = "ok" ->
                 /\ temp_path' = p
                 /\ disk' = disk \cup {p}
                 /\ events' = Append(events, Ev("create", p, "handler"))
                 /\ audio_input' = p
                 /\ audio_path' = p
                 /\ t_pc' = "a_video"
                 /\ t_status' = "running"
                 /\ UNCHANGED <<error, result>>
    /\ UNCHANGED <<temp_file, seg_kind, segments, yielded, text, segments_count,
                   extracted>>
    /\ UNCHANGED <<loadVars, status, otherVars>>
    /\ UNCHANGED reqVars

\* app.py 371-413: POST /api/transcribe
PostTranscribe == \E p \in UploadPaths : Upload("transcribe_api", p)

\* app.py 447-481: POST /api/transcribe-blob
PostTranscribeBlob == Upload("transcribe_blob", BlobPath)

\* app.py 212-215 with extract_audio_from_video (169-197): the extraction's
\* exception is re-raised as it is.
AVideo ==
    /\ t_pc = "a_video"
    /\ IF is_video_file(audio_path)
       THEN \E outcome \in ExtractionOutcomes :
               LET out == ExtractedAudioPath(audio_path)
               IN /\ IF LeavesFile(outcome)
                     THEN /\ disk' = disk \cup {out}
                          /\ events' = Append(events, Ev("create", out, "transcribe"))
                     ELSE UNCHANGED <<disk, events>>
                  /\ empty' = IF ZeroBytes(outcome) THEN empty \cup {out} ELSE empty
                  /\ IF ExtractionRaised(outcome)
                     THEN /\ AppRaise("extraction")
                          /\ UNCHANGED <<audio_path, extracted>>
                     ELSE /\ audio_path' = out
                          /\ extracted' = out
                          /\ t_pc' = "a_infer"
                          /\ UNCHANGED <<error, t_status, result>>
       ELSE /\ t_pc' = "a_infer"
            /\ UNCHANGED <<audio_path, extracted, disk, events, error, t_status,
                           result, empty>>
    /\ UNCHANGED <<entry, audio_input, temp_file, temp_path, seg_kind, segments,
                   yielded, text, segments_count>>
    /\ UNCHANGED <<loadVars, status, otherVars>>
    /\ UNCHANGED <<kwargs, transcribe_params, details, conversion>>

\* A transcribe that cleans up before it has iterated the segments.
AfterInference_CleanupFirst == "a_cleanup"

\* app.py 219-222: the segments returned are joined next.
AfterInference == "a_join"

\* app.py 219: self.model.transcribe(audio_file, beam_size=5, language=language)
AInfer ==
    /\ t_pc = "a_infer"
    /\ \/ /\ AppRaise("inference")
          /\ UNCHANGED <<seg_kind, segments, yielded>>
       \/ \E segs \in SegLists, kind \in {"generator", "list"} :
             /\ Usable(audio_path)
             /\ segments' = segs
             /\ yielded' = segs
             /\ seg_kind' = kind
             /\ t_pc' = AfterInference
             /\ UNCHANGED <<error, t_status, result>>
    /\ transcribe_params' = AppParams
    /\ UNCHANGED <<entry, audio_input, audio_path, temp_file, temp_path, disk,
                   text, segments_count, extracted, events>>
    /\ UNCHANGED <<loadVars, status, otherVars>>
    /\ UNCHANGED <<kwargs, details, empty, conversion>>

\* app.py 222
AJoin ==
    /\ t_pc = "a_join"
    /\ \/ /\ seg_kind = "generator"
          /\ AppRaise("inference")
          /\ segments' = << >>
          /\ UNCHANGED text
       \/ /\ text' = Join(segments)
          /\ segments' = Consume(segments, seg_kind)
          /\ t_pc' = "a_count"
          /\ UNCHANGED <<error, t_status, result>>
    /\ UNCHANGED <<entry, audio_input, audio_path, temp_file, temp_path, disk,
                   seg_kind, yielded, segments_count, extracted, events>>
    /\ UNCHANGED <<loadVars, status, otherVars>>
    /\ UNCHANGED reqVars

\* app.py 225-232
ACount ==
    /\ t_pc = "a_count"
    /\ segments_count' = CountSegments(segments)
    /\ segments' = Consume(segments, seg_kind)
    /\ t_pc' = "a_cleanup"
    /\ UNCHANGED <<entry, t_status, audio_input, audio_path, temp_file, temp_path,
                   disk, seg_kind, yielded, text, error, extracted, events,
                   result>>
    /\ UNCHANGED <<loadVars, status, otherVars>>
    /\ UNCHANGED reqVars

\* app.py 234-242: the file transcribed is removed when its name looks like
\* an extracted one; OSError is swallowed.  Then transcribe returns.
ACleanup ==
    /\ t_pc = "a_cleanup"
    /\ IF LooksLikeExtracted(audio_path)
       THEN /\ events' = RemoveEvent(audio_path, "transcribe")
            /\ disk' = Removed(audio_path)
       ELSE UNCHANGED <<disk, events>>
    /\ t_status' = "returned"
    /\ t_pc' = AfterReturn
    /\ result' = IF AfterReturn = "done" THEN "returned" ELSE result
    /\ UNCHANGED <<entry, audio_input, audio_path, temp_file, temp_path, seg_kind,
                   segments, yielded, text, segments_count, error, extracted>>
    /\ UNCHANGED <<loadVars, status, otherVars>>
    /\ UNCHANGED reqVars

\* app.py 266-269: os.remove(temp_filename), unguarded.
MicRemove ==
    /\ t_pc = "mic_remove"
    /\ events' = RemoveEvent(temp_path, "microphone")
    /\ disk' = Removed(temp_path)
    /\ IF temp_path \in disk
       THEN /\ result' = "returned"
            /\ UNCHANGED error
       ELSE /\ result' = "raised"
            /\ error' = "FileNotFoundError"
    /\ t_pc' = "done"
    /\ UNCHANGED <<entry, t_status, audio_input, audio_path, temp_file, temp_path,
                   seg_kind, segments, yielded, text, segments_count, extracted>>
    /\ UNCHANGED <<loadVars, status, otherVars>>
    /\ UNCHANGED reqVars

\* app.py 417-428: remove the upload (a failure is printed), answer success.
ApiRespond ==
    /\ t_pc = "api_respond"
    /\ events' = RemoveEvent(temp_path, "handler")
    /\ disk' = Removed(temp_path)
    /\ result' = "http_200"
    /\ t_pc' = "done"
    /\ UNCHANGED <<entry, t_status, audio_input, audio_path, temp_file, temp_path,
                   seg_kind, segments, yielded, text, segments_count, error,
                   extracted>>
    /\ UNCHANGED <<loadVars, status, otherVars>>
    /\ UNCHANGED reqVars

\* app.py 485-491: the blob handler removes nothing on success.
BlobRespond ==
    /\ t_pc = "blob_respond"
    /\ result' = "http_200"
    /\ t_pc' = "done"
    /\ UNCHANGED <<entry, t_status, audio_input, audio_path, temp_file, temp_path,
                   disk, seg_kind, segments, yielded, text, segments_count, error,
                   extracted, events>>
    /\ UNCHANGED <<loadVars, status, otherVars>>
    /\ UNCHANGED reqVars

\* app.py 429-445 and 492-508: remove the upload if it exists, answer 500.
HandlerExcept(pc) ==
    /\ t_pc = pc
    /\ IF temp_path \in disk
       THEN /\ events' = RemoveEvent(temp_path, "handler")
            /\ disk' = Removed(temp_path)
       ELSE UNCHANGED <<disk, events>>
    /\ result' = "http_500"
    /\ t_pc' = "done"
    /\ UNCHANGED <<entry, t_status, audio_input, audio_path, temp_file, temp_path,
                   seg_kind, segments, yielded, text, segments_count, error,
                   extracted>>
    /\ UNCHANGED <<loadVars, status, otherVars>>
    /\ UNCHANGED reqVars

\* app.py 429-445
ApiExcept == HandlerExcept("api_except")

\* app.py 492-508
BlobExcept == HandlerExcept("blob_except")

----------------------------------------------------------------------------
(* utils.convert_video_to_audio                                             *)

\* What the function meets: no ffmpeg (utils.py 51-53); NamedTemporaryFile
\* raising (57); ffmpeg exiting non-zero (63-76, check=True); ffmpeg exiting
\* zero with audio written, with a file of zero bytes, or with no file (78).
ConversionOutcomes ==
    {"no_ffmpeg", "tmp_fails", "tool_error", "ok", "empty", "missing"}

\* utils.py 78: os.path.exists(audio_path) and os.path.getsize(audio_path) > 0
OutputAccepted(outcome) == outcome = "ok"

\* utils.py 40-94
ConvertVideoToAudio ==
    /\ t_pc = "idle"
    /\ entry' = "convert_video_to_audio"
    /\ t_pc' = "done"
    /\ \E p \in InputPaths, outcome \in ConversionOutcomes, name \in TempNames :
          /\ audio_input' = p
          /\ CASE outcome = "no_ffmpeg" ->
                   /\ disk' = {p}
                   /\ events' = <<Ev("create", p, "caller")>>
                   /\ conversion' = [path |-> NoPath, ok |-> FALSE]
                   /\ result' = "returned"
                   /\ UNCHANGED <<temp_file, empty, error>>
               [] outcome = "tmp_fails" ->
                   /\ disk' = {p}
                   /\ events' = <<Ev("create", p, "caller")>>
                   /\ error' = "UnboundLocalError"
                   /\ result' = "raised"
                   /\ UNCHANGED <<temp_file, empty, conversion>>
               [] outcome = "tool_error" ->
                   /\ temp_file' = name
                   /\ disk' = {p}
                   /\ events' = <<Ev("create", p, "caller"),
                                  Ev("create", name, "convert"),
                                  Ev("delete", name, "convert")>>
                   /\ conversion' = [path |-> NoPath, ok |-> FALSE]
                   /\ result' = "returned"
                   /\ UNCHANGED <<empty, error>>
               [] outcome = "missing" ->
                   /\ temp_file' = name
                   /\ disk' = {p}
                   /\ events' = <<Ev("create", p, "caller"),
                                  Ev("create", name, "convert")>>
                   /\ conversion' = [path |-> NoPath, ok |-> FALSE]
                   /\ result' = "returned"
                   /\ UNCHANGED <<empty, error>>
               [] outcome \in {"ok", "empty"} ->
                   /\ temp_file' = name
                   /\ disk' = {p, name}
                   /\ events' = <<Ev("create", p, "caller"),
                                  Ev("create", name, "convert")>>
                   /\ empty' = IF outcome = "empty" THEN {name} ELSE {}
                   /\ conversion' = IF OutputAccepted(outcome)
                                    THEN [path |-> name, ok |-> TRUE]
                                    ELSE [path |-> NoPath, ok |-> FALSE]
                   /\ result' = "returned"
                   /\ UNCHANGED error
    /\ UNCHANGED <<t_status, audio_path, temp_path, seg_kind, segments, yielded,
                   text, segments_count, extracted>>
    /\ UNCHANGED <<loadVars, status, otherVars>>
    /\ UNCHANGED <<kwargs, transcribe_params, details>>

----------------------------------------------------------------------------
(* Two requests in flight at once on one instance, sharing the temporary    *)
(* directory: STTEngine.transcribe on a file or an array, or the two HTTP   *)
(* handlers of app.py with SpeechToText.transcribe.                         *)

\* The number of requests in flight together.
NumRequests == 2

Reqs == 1..NumRequests

\* The paths on disk.
CPaths == {f.path : f \in c_disk}

\* open(p, "w") and write by request r: p now holds r's audio.
CWrite(p, r) == {f \in c_disk : f.path # p} \cup {[path |-> p, by |-> r]}

\* os.remove(p)
CRemove(p) == {f \in c_disk : f.path # p}

\* The other requests in flight that made p and have not removed it.
CHolders(p, r) ==
    {v \in Reqs \ {r} : c_pc[v] \notin {"idle", "done"} /\ p \in c_made[v]}

\* History: request r writes or removes p while another request holds it.
CTouch(op, p, r) ==
    c_hits \cup {[op |-> op, path |-> p, by |-> r, of |-> v] : v \in CHolders(p, r)}

ConcIdle ==
    /\ c_entry = [r \in Reqs |-> None]
    /\ c_pc = [r \in Reqs |-> "idle"]
    /\ c_input = [r \in Reqs |-> NoPath]
    /\ c_audio = [r \in Reqs |-> NoPath]
    /\ c_temp = [r \in Reqs |-> NoPath]
    /\ c_extracted = [r \in Reqs |-> NoPath]
    /\ c_made = [r \in Reqs |-> {}]
    /\ c_heard = [r \in Reqs |-> 0]
    /\ c_error = [r \in Reqs |-> None]
    /\ c_disk = {}
    /\ c_hits = {}

\* engine.py 198-237: transcribe is called on a file the caller holds, or on
\* an array that goes to a fresh temporary file (O_EXCL: a name not on disk).
CEngineCall(r) ==
    /\ loader = "STTEngine" /\ l_pc = "loaded"
    /\ c_pc[r] = "idle"
    /\ c_entry' = [c_entry EXCEPT ![r] = "STTEngine.transcribe"]
    /\ \E p \in InputPaths \cup {Buffer} :
          /\ c_input' = [c_input EXCEPT ![r] = p]
          /\ IF p = Buffer
             THEN \E name \in TempNames \ CPaths, written \in BOOLEAN :
                     /\ c_temp' = [c_temp EXCEPT ![r] = name]
                     /\ c_made' = [c_made EXCEPT ![r] = {name}]
                     /\ c_disk' = CWrite(name, r)
                     /\ c_hits' = CTouch("write", name, r)
                     /\ IF written
                        THEN /\ c_audio' = [c_audio EXCEPT ![r] = name]
                             /\ c_pc' = [c_pc EXCEPT ![r] = "e_video"]
                             /\ UNCHANGED c_error
                        ELSE /\ c_error' = [c_error EXCEPT ![r] = "sf.write"]
                             /\ c_pc' = [c_pc EXCEPT ![r] = "e_finally"]
                             /\ UNCHANGED c_audio
             ELSE /\ c_audio' = [c_audio EXCEPT ![r] = p]
                  /\ c_disk' = IF p \in CPaths THEN c_disk ELSE CWrite(p, r)
                  /\ c_pc' = [c_pc EXCEPT ![r] = "e_video"]
                  /\ UNCHANGED <<c_temp, c_made, c_hits, c_error>>
    /\ UNCHANGED <<c_extracted, c_heard>>
    /\ UNCHANGED <<loadVars, transVars, reqVars, status, classVars, normVars>>

\* What an extraction does to the disk: engine.py 282-294, app.py 185-197.
\* The output path is made of the stem alone; write_audiofile overwrites.
CExtract(r, outcome, next_ok, next_fail, err) ==
    LET out == ExtractedAudioPath(c_audio[r])
    IN IF outcome = "ok"
       THEN /\ c_audio' = [c_audio EXCEPT ![r] = out]
            /\ c_extracted' = [c_extracted EXCEPT ![r] = out]
            /\ c_made' = [c_made EXCEPT ![r] = c_made[r] \cup {out}]
            /\ c_disk' = CWrite(out, r)
            /\ c_hits' = CTouch("write", out, r)
            /\ c_pc' = [c_pc EXCEPT ![r] = next_ok]
            /\ UNCHANGED c_error
       ELSE /\ c_error' = [c_error EXCEPT ![r] = err]
            /\ c_pc' = [c_pc EXCEPT ![r] = next_fail]
            /\ UNCHANGED <<c_audio, c_extracted, c_made, c_disk, c_hits>>

\* engine.py 239-242
CEVideo(r) ==
    /\ c_pc[r] = "e_video"
    /\ IF _is_video_file(c_audio[r])
       THEN \E outcome \in {"ok", "fail"} :
               CExtract(r, outcome, "e_infer", "e_finally", "RuntimeError")
       ELSE /\ c_pc' = [c_pc EXCEPT ![r] = "e_infer"]
            /\ UNCHANGED <<c_audio, c_extracted, c_made, c_disk, c_hits, c_error>>
    /\ UNCHANGED <<c_entry, c_input, c_temp, c_heard>>
    /\ UNCHANGED <<loadVars, transVars, reqVars, status, classVars, normVars>>

\* The audio the inference reads at c_audio[r]: that of the request that
\* wrote the file last.  A file that is gone cannot be read.
CHeard(r) == (CHOOSE f \in c_disk : f.path = c_audio[r]).by

\* engine.py 246-265: inference, join, details.
CEInfer(r) ==
    /\ c_pc[r] = "e_infer"
    /\ \E ok \in BOOLEAN :
          IF ok /\ c_audio[r] \in CPaths
          THEN /\ c_heard' = [c_heard EXCEPT ![r] = CHeard(r)]
               /\ UNCHANGED c_error
          ELSE /\ c_error' = [c_error EXCEPT ![r] = "inference"]
               /\ UNCHANGED c_heard
    /\ c_pc' = [c_pc EXCEPT ![r] = "e_finally"]
    /\ UNCHANGED <<c_entry, c_input, c_audio, c_temp, c_extracted, c_made, c_disk,
                   c_hits>>
    /\ UNCHANGED <<loadVars, transVars, reqVars, status, classVars, normVars>>

\* engine.py 267-270
CEFinally(r) ==
    /\ c_pc[r] = "e_finally"
    /\ IF c_temp[r] # NoPath /\ c_temp[r] \in CPaths
       THEN /\ c_disk' = CRemove(c_temp[r])
            /\ c_hits' = CTouch("delete", c_temp[r], r)
            /\ c_made' = [c_made EXCEPT ![r] = c_made[r] \ {c_temp[r]}]
       ELSE UNCHANGED <<c_disk, c_hits, c_made>>
    /\ c_pc' = [c_pc EXCEPT ![r] = "done"]
    /\ UNCHANGED <<c_entry, c_input, c_audio, c_temp, c_extracted, c_heard, c_error>>
    /\ UNCHANGED <<loadVars, transVars, reqVars, status, classVars, normVars>>

\* app.py 379-399 and 451-468: the upload is saved in the temporary directory
\* under the client's file name (transcribe_api) or under recorded_audio.wav
\* (transcribe_blob).
CUpload(r, handler, p) ==
    /\ loader = "SpeechToText" /\ l_pc = "loaded"
    /\ c_pc[r] = "idle"
    /\ c_entry' = [c_entry EXCEPT ![r] = handler]
    /\ c_temp' = [c_temp EXCEPT ![r] = p]
    /\ c_input' = [c_input EXCEPT ![r] = p]
    /\ \E saved \in BOOLEAN :
          IF saved
          THEN /\ c_disk' = CWrite(p, r)
               /\ c_hits' = CTouch("write", p, r)
               /\ c_made' = [c_made EXCEPT ![r] = {p}]
               /\ c_pc' = [c_pc EXCEPT ![r] = "a_check"]
               /\ UNCHANGED c_error
          ELSE /\ c_error' = [c_error EXCEPT ![r] = "file.save"]
               /\ c_pc' = [c_pc EXCEPT ![r] = "done"]
               /\ UNCHANGED <<c_disk, c_hits, c_made>>
    /\ UNCHANGED <<c_audio, c_extracted, c_heard>>
    /\ UNCHANGED <<loadVars, transVars, reqVars, status, classVars, normVars>>

\* app.py 371-399
CPostTranscribe(r) == \E p \in UploadPaths : CUpload(r, "transcribe_api", p)

\* app.py 447-468
CPostTranscribeBlob(r) == CUpload(r, "transcribe_blob", BlobPath)

\* app.py 401-413, 470-481: the saved file must still exist, then transcribe
\* is called on it.
CCheckSaved(r) ==
    /\ c_pc[r] = "a_check"
    /\ IF c_temp[r] \in CPaths
       THEN /\ c_audio' = [c_audio EXCEPT ![r] = c_temp[r]]
            /\ c_pc' = [c_pc EXCEPT ![r] = "a_video"]
            /\ UNCHANGED c_error
       ELSE /\ c_error' = [c_error EXCEPT ![r] = "missing"]
            /\ c_pc' = [c_pc EXCEPT ![r] = "done"]
            /\ UNCHANGED c_audio
    /\ UNCHANGED <<c_entry, c_input, c_temp, c_extracted, c_made, c_heard, c_disk,
                   c_hits>>
    /\ UNCHANGED <<loadVars, transVars, reqVars, status, classVars, normVars>>

\* app.py 212-215
CAVideo(r) ==
    /\ c_pc[r] = "a_video"
    /\ IF is_video_file(c_audio[r])
       THEN \E outcome \in {"ok", "fail"} :
               CExtract(r, outcome, "a_infer", "a_except", "extraction")
       ELSE /\ c_pc' = [c_pc EXCEPT ![r] = "a_infer"]
            /\ UNCHANGED <<c_audio, c_extracted, c_made, c_disk, c_hits, c_error>>
    /\ UNCHANGED <<c_entry, c_input, c_temp, c_heard>>
    /\ UNCHANGED <<loadVars, transVars, reqVars, status, classVars, normVars>>

\* app.py 219-242: inference, join, details, then the removal by name of the
\* file transcribed; an OSError of the removal is swallowed.
CAInfer(r) ==
    /\ c_pc[r] = "a_infer"
    /\ \E ok \in BOOLEAN :
          IF ok /\ c_audio[r] \in CPaths
          THEN /\ c_heard' = [c_heard EXCEPT ![r] = CHeard(r)]
               /\ c_pc' = [c_pc EXCEPT ![r] = "a_respond"]
               /\ IF LooksLikeExtracted(c_audio[r])
                  THEN /\ c_disk' = CRemove(c_audio[r])
                       /\ c_hits' = CTouch("delete", c_audio[r], r)
                       /\ c_made' = [c_made EXCEPT ![r] = c_made[r] \ {c_audio[r]}]
                  ELSE UNCHANGED <<c_disk, c_hits, c_made>>
               /\ UNCHANGED c_error
          ELSE /\ c_error' = [c_error EXCEPT ![r] = "inference"]
               /\ c_pc' = [c_pc EXCEPT ![r] = "a_except"]
               /\ UNCHANGED <<c_heard, c_disk, c_hits, c_made>>
    /\ UNCHANGED <<c_entry, c_input, c_audio, c_temp, c_extracted>>
    /\ UNCHANGED <<loadVars, transVars, reqVars, status, classVars, normVars>>

\* app.py 417-428 (os.remove(temp_path), a failure is printed) and 485-491
\* (the blob handler removes nothing).
CRespond(r) ==
    /\ c_pc[r] = "a_respond"
    /\ IF c_entry[r] = "transcribe_api" /\ c_temp[r] \in CPaths
       THEN /\ c_disk' = CRemove(c_temp[r])
            /\ c_hits' = CTouch("delete", c_temp[r], r)
            /\ c_made' = [c_made EXCEPT ![r] = c_made[r] \ {c_temp[r]}]
       ELSE UNCHANGED <<c_disk, c_hits, c_made>>
    /\ c_pc' = [c_pc EXCEPT ![r] = "done"]
    /\ UNCHANGED <<c_entry, c_input, c_audio, c_temp, c_extracted, c_heard, c_error>>
    /\ UNCHANGED <<loadVars, transVars, reqVars, status, classVars, normVars>>

\* app.py 429-445 and 492-508
CExcept(r) ==
    /\ c_pc[r] = "a_except"
    /\ IF c_temp[r] \in CPaths
       THEN /\ c_disk' = CRemove(c_temp[r])
            /\ c_hits' = CTouch("delete", c_temp[r], r)
            /\ c_made' = [c_made EXCEPT ![r] = c_made[r] \ {c_temp[r]}]
       ELSE UNCHANGED <<c_disk, c_hits, c_made>>
    /\ c_pc' = [c_pc EXCEPT ![r] = "done"]
    /\ UNCHANGED <<c_entry, c_input, c_audio, c_temp, c_extracted, c_heard, c_error>>
    /\ UNCHANGED <<loadVars, transVars, reqVars, status, classVars, normVars>>

ConcNext ==
    \E r \in Reqs :
        \/ CEngineCall(r)
        \/ CEVideo(r)
        \/ CEInfer(r)
        \/ CEFinally(r)
        \/ CPostTranscribe(r)
        \/ CPostTranscribeBlob(r)
        \/ CCheckSaved(r)
        \/ CAVideo(r)
        \/ CAInfer(r)
        \/ CRespond(r)
        \/ CExcept(r)

----------------------------------------------------------------------------
(* The extension checks: utils.is_video_file, utils.is_audio_file,          *)
(* STTEngine._is_video_file, SpeechToText.is_video_file                     *)

\* The extensions of the paths that are classified: the video and audio
\* formats, their upper-case spellings, unknown ones and no extension ("").
ClassExts ==
    SUPPORTED_VIDEO_FORMATS \cup audio_extensions
    \cup {".MP4", ".WebM", ".WEBM", ".Mkv", ".WAV", ".Mp3", ".txt", ".mp", ""}

ClassPaths == {Path(d, "clip", 0, e) : d \in {"tmp", "home"}, e \in ClassExts}

Checked == {v.check : v \in verdict}

\* One check is asked about file_path and its answer is recorded.
Ask(check, answer) ==
    /\ file_path # NoPath
    /\ check \notin Checked
    /\ verdict' = verdict \cup {[check |-> check, answer |-> answer]}
    /\ UNCHANGED <<file_path, concVars, normVars>>
    /\ UNCHANGED <<loadVars, transVars, reqVars, status>>

\* utils.py 153-164
AskUtilsIsVideoFile ==
    Ask("utils.is_video_file", utils_is_video_file(file_path))

\* utils.py 167-178
AskUtilsIsAudioFile ==
    Ask("utils.is_audio_file", is_audio_file(file_path))

\* engine.py 272-275
AskEngineIsVideoFile ==
    /\ loader = "STTEngine" /\ l_pc = "loaded"
    /\ Ask("STTEngine._is_video_file", _is_video_file(file_path))

\* app.py 150-167
AskAppIsVideoFile ==
    /\ loader = "SpeechToText" /\ l_pc = "loaded"
    /\ Ask("SpeechToText.is_video_file", is_video_file(file_path))

ClassifyNext ==
    \/ AskUtilsIsVideoFile
    \/ AskUtilsIsAudioFile
    \/ AskEngineIsVideoFile
    \/ AskAppIsVideoFile

----------------------------------------------------------------------------
(* normalize_audio (utils.py 97-122)                                        *)

\* The longest buffer normalized here.
MaxSamples == 3

\* Samples are the fractions k / SampleDen with |k| <= MaxNum, so peaks
\* below, at and above 1.0 occur.
SampleDen == 2

MaxNum == 3

\* utils.py 109, 111: the rate normalize_audio resamples to.
TargetRate == 16000

\* The rates of the buffers: the target rate, half of it and twice it (the
\* ratios 2.0 and 0.5 are exact in floating point).
Rates == {8000, TargetRate, 32000}

Abs(n) == IF n < 0 THEN -n ELSE n

RECURSIVE Gcd(_, _)
Gcd(a, b) == IF b = 0 THEN a ELSE Gcd(b, a % b)

\* A sample value: the fraction n / d in lowest terms, d > 0.
Frac(n, d) ==
    LET g == Gcd(Abs(n), d)
    IN  [num |-> n \div g, den |-> d \div g]

\* numpy's 0.0 / 0.0
NaN == [num |-> 0, den |-> 0]

Zero == Frac(0, 1)

FAbs(a) == [num |-> Abs(a.num), den |-> a.den]

FLeq(a, b) == a.num * b.den <= b.num * a.den

FAdd(a, b) == Frac(a.num * b.den + b.num * a.den, a.den * b.den)

FSub(a, b) == Frac(a.num * b.den - b.num * a.den, a.den * b.den)

FMul(a, b) == Frac(a.num * b.num, a.den * b.den)

\* a / b as numpy divides: a zero divisor gives nan and no exception.
FDiv(a, b) ==
    IF b.num = 0 THEN NaN
    ELSE IF b.num > 0 THEN Frac(a.num * b.den, a.den * b.num)
    ELSE Frac(-(a.num * b.den), a.den * (-b.num))

\* np.max(np.abs(audio_data)) of a non-empty buffer
Peak(data) ==
    CHOOSE m \in {FAbs(data[i]) : i \in 1..Len(data)} :
        \A i \in 1..Len(data) : FLeq(FAbs(data[i]), m)

\* np.interp(x, np.arange(0, len(fp)), fp) for x >= 0: linear between the
\* neighbours, the last sample beyond the end.
Interp(x, fp) ==
    LET i == x.num \div x.den
    IN  IF i >= Len(fp) - 1 THEN fp[Len(fp)]
        ELSE FAdd(fp[i + 1],
                  FMul(FSub(x, Frac(i, 1)), FSub(fp[i + 2], fp[i + 1])))

\* utils.py 111-116: np.arange(0, len * ratio, ratio) has len elements.
Resample(data, rate) ==
    LET ratio == Frac(TargetRate, rate)
    IN  [i \in 1..Len(data) |-> Interp(FMul(Frac(i - 1, 1), ratio), data)]

\* A guard that always divides.
Audible_Always(peak) == TRUE

\* utils.py 119: np.max(np.abs(audio_data)) > 0
Audible(peak) == peak.num > 0

\* What a call of normalize_audio gives: the exception or the buffer, and
\* whether the division of line 120 ran.
Outcome(r, d, v) == [raised |-> r, data |-> d, divided |-> v]

NoOutcome == Outcome(FALSE, << >>, FALSE)

\* utils.py 97-122. np.interp and np.max raise ValueError on an array
\* without elements.
normalize_audio(data, rate) ==
    IF Len(data) = 0 THEN Outcome(TRUE, << >>, FALSE)
    ELSE LET resampled == IF rate # TargetRate THEN Resample(data, rate) ELSE data
             peak == Peak(resampled)
         IN  IF Audible(peak)
             THEN Outcome(FALSE,
                          [i \in 1..Len(resampled) |-> FDiv(resampled[i], peak)],
                          TRUE)
             ELSE Outcome(FALSE, resampled, FALSE)

Samples == {Frac(k, SampleDen) : k \in -MaxNum..MaxNum}

Buffers == UNION {[1..n -> Samples] : n \in 0..MaxSamples}

\* No buffer is being normalized.
NormIdle ==
    /\ audio_data = << >>
    /\ sample_rate = TargetRate
    /\ normalized = NoOutcome
    /\ renormalized = NoOutcome
    /\ n_pc = "idle"

\* A caller holds a buffer and its rate.
NormInit ==
    /\ audio_data \in Buffers
    /\ sample_rate \in Rates
    /\ normalized = NoOutcome
    /\ renormalized = NoOutcome
    /\ n_pc = "ready"

\* normalize_audio(audio_data, sample_rate)
NormalizeAudio ==
    /\ n_pc = "ready"
    /\ normalized' = normalize_audio(audio_data, sample_rate)
    /\ n_pc' = "once"
    /\ UNCHANGED <<audio_data, sample_rate, renormalized>>
    /\ UNCHANGED <<loadVars, transVars, reqVars, status, classVars, concVars>>

\* normalize_audio applied to the buffer it returned, now at the target rate
\* (utils.py 146).
NormalizeAgain ==
    /\ n_pc = "once"
    /\ ~normalized.raised
    /\ renormalized' = normalize_audio(normalized.data, TargetRate)
    /\ n_pc' = "twice"
    /\ UNCHANGED <<audio_data, sample_rate, normalized>>
    /\ UNCHANGED <<loadVars, transVars, reqVars, status, classVars, concVars>>

NormNext ==
    \/ NormalizeAudio
    \/ NormalizeAgain

----------------------------------------------------------------------------
(* The specifications                                                       *)

\* The engine a request runs on: one that has loaded.
LoadedEngine ==
    /\ loader = "STTEngine"
    /\ l_pc = "loaded"
    /\ model_size = "medium"
    /\ use_gpu = FALSE
    /\ device = "cpu"
    /\ compute_type = "int8"
    /\ cuda_probe = "flag_false"
    /\ instantiate = [i \in 1..MaxAttempts |-> TRUE]
    /\ success = TRUE
    /\ error_messages = << >>
    /\ fallback_configs = << >>
    /\ fb_idx = 1
    /\ model = Kwargs("medium", "cpu", "int8")
    /\ attempts = <<[kwargs |-> Kwargs("medium", "cpu", "int8"), ok |-> TRUE]>>
    /\ requested = [model_size |-> "medium", device |-> None,
                    compute_type |-> None]

\* The SpeechToText instance a request of app.py runs on.
LoadedSimple ==
    /\ loader = "SpeechToText"
    /\ l_pc = "loaded"
    /\ model_size = "medium"
    /\ use_gpu = FALSE
    /\ device = "cpu"
    /\ compute_type = "int8"
    /\ cuda_probe = "flag_false"
    /\ instantiate = [i \in 1..MaxAttempts |-> TRUE]
    /\ success = FALSE
    /\ error_messages = << >>
    /\ fallback_configs = << >>
    /\ fb_idx = 1
    /\ model = SimpleKwargs("medium", "cpu", "int8")
    /\ attempts = <<[kwargs |-> SimpleKwargs("medium", "cpu", "int8"), ok |-> TRUE]>>
    /\ requested = [model_size |-> "medium", device |-> None,
                    compute_type |-> None]

TransNext ==
    \/ CallEngineTranscribe
    \/ CallEngineMicrophone
    \/ EInput
    \/ EVideo
    \/ EInfer
    \/ EJoin
    \/ ECount
    \/ EFinally
    \/ CallAppTranscribe
    \/ CallAppMicrophone
    \/ PostTranscribe
    \/ PostTranscribeBlob
    \/ AVideo
    \/ AInfer
    \/ AJoin
    \/ ACount
    \/ ACleanup
    \/ MicRemove
    \/ ApiRespond
    \/ BlobRespond
    \/ ApiExcept
    \/ BlobExcept
    \/ ConvertVideoToAudio

vars == <<loadVars, transVars, reqVars, status, otherVars>>

\* One construction of an engine; no request runs.
ConstructInit ==
    /\ LoadInit /\ TransInit /\ CallInit /\ StatusInit /\ ClassIdle /\ ConcIdle
    /\ NormIdle

SpecLoad == ConstructInit /\ [][LoadNext]_vars

\* The steps of a constructor, which runs to its end once called; status
\* requests come from outside and need not come.
LoadStep ==
    \/ Resolve
    \/ PrimaryAttempt
    \/ FallbackAttempt
    \/ TinyAttempt
    \/ RaiseNoModel
    \/ SimpleGpuAttempt
    \/ SimpleSkipGpu
    \/ SimpleCpuAttempt
    \/ TestGpuAttempt
    \/ TestSkipGpu
    \/ TestCpuAttempt

\* One construction whose constructor keeps running.
SpecLoadFair == ConstructInit /\ [][LoadNext]_vars /\ WF_vars(LoadStep)

\* One request on a loaded engine.
RequestInit ==
    /\ LoadedEngine \/ LoadedSimple
    /\ TransInit /\ CallInit /\ StatusInit /\ ClassIdle /\ ConcIdle
    /\ NormIdle

SpecTranscribe == RequestInit /\ [][TransNext]_vars

\* Two requests at once on a loaded instance.
SpecConcurrent == RequestInit /\ [][ConcNext]_vars

\* The loads of the serving specification: the first k instantiations fail,
\* the later ones succeed.
FailThenLoad == {[i \in 1..MaxAttempts |-> i > k] : k \in 0..MaxAttempts}

\* An instance is constructed, then serves status requests and one
\* transcription request; a status request may come while the transcription
\* is in flight.
ServeInit ==
    /\ ConstructInit
    /\ instantiate \in FailThenLoad
    /\ model_size \in {"tiny", "medium"}
    /\ cuda_probe = "ok"
    /\ device = None
    /\ compute_type = None

ServeNext == LoadNext \/ TransNext

SpecServe == ServeInit /\ [][ServeNext]_vars


\* The extension checks asked about one path on a loaded instance.
ClassifyInit ==
    /\ LoadedEngine \/ LoadedSimple
    /\ TransInit /\ CallInit /\ StatusInit /\ ConcIdle
    /\ file_path \in ClassPaths
    /\ verdict = {}
    /\ NormIdle

SpecClassify == ClassifyInit /\ [][ClassifyNext]_vars

\* One buffer normalized, and normalized again, beside a loaded instance.
NormalizeInit ==
    /\ LoadedEngine
    /\ TransInit /\ CallInit /\ StatusInit /\ ClassIdle /\ ConcIdle
    /\ NormInit

SpecNormalize == NormalizeInit /\ [][NormNext]_vars

----------------------------------------------------------------------------
(* Properties of the load ladder, checked under SpecLoad.                   *)

LoadDone == l_pc \in {"loaded", "raised"}

\* The two classes that serve requests; tests/test_model.py loads a model
\* for a trial run only.
ServingLoaders == {"STTEngine", "SpeechToText"}

\* The preferred candidate, from the constructor arguments (engine.py 76-85).
PreferredDevice == ResolveDevice(requested.device)

PreferredComputeType ==
    ResolveComputeType(PreferredDevice, requested.compute_type,
                       requested.model_size)

\* The number of tiers tried with the requested model size.
NumTiers ==
    IF loader = "STTEngine"
    THEN 1 + Len(FallbackConfigs(PreferredDevice))
    ELSE (IF is_cuda_available /\ use_gpu THEN 2 ELSE 1)

TiersAllFail == \A i \in 1..NumTiers : ~instantiate[i]

\* C6: when the first two attempted tiers fail and the third succeeds, the
\* engine's device and precision are those the third attempt was instantiated
\* with (the second entry of the secondary ladder, at the requested size),
\* and the failure history holds exactly two records.
C6_ThirdTierLoaded ==
    (/\ loader = "STTEngine"
     /\ l_pc = "loaded"
     /\ Len(attempts) = 3
     /\ ~attempts[1].ok /\ ~attempts[2].ok /\ attempts[3].ok)
    => /\ device = attempts[3].kwargs.device
       /\ compute_type = attempts[3].kwargs.compute_type
       /\ model = attempts[3].kwargs
       /\ model.model_size = requested.model_size
       /\ model.device = FallbackConfigs(PreferredDevice)[2].device
       /\ model.compute_type = FallbackConfigs(PreferredDevice)[2].compute_type
       /\ Len(error_messages) = 2

C6_Witness ==
    /\ l_pc = "loaded"
    /\ Len(attempts) = 3
    /\ ~instantiate[1] /\ ~instantiate[2] /\ instantiate[3]
    /\ attempts[1].kwargs.device = "cuda"
    /\ attempts[1].kwargs.compute_type = "float16"
    /\ device = "cuda"
    /\ compute_type = "int8"
    /\ Len(error_messages) = 2

\* The whole ladder of this load: the tiers at the requested size, then the
\* last resort unless the requested size is already the smallest.
LadderLen ==
    NumTiers + (IF loader = "STTEngine" /\ requested.model_size # "tiny"
                THEN 1 ELSE 0)

\* C7: the load (of STTEngine and of SpeechToText) raises exactly when every
\* attempt of its ladder fails; when some attempt of the ladder succeeds the
\* load ends with a model.
C7_RaisesIffLadderExhausted ==
    (LoadDone /\ loader \in ServingLoaders) =>
        /\ (l_pc = "raised") <=> (\A i \in 1..LadderLen : ~instantiate[i])
        /\ (l_pc = "loaded") <=> (\E i \in 1..LadderLen : instantiate[i])
        /\ (l_pc = "loaded") <=> (model # NoModel)

C7_Witness ==
    /\ loader = "STTEngine"
    /\ l_pc = "raised"
    /\ Len(attempts) = MaxAttempts
    /\ \A i \in 1..MaxAttempts : ~attempts[i].ok
    /\ model = NoModel

IsGpu(dev) == dev \in {"cuda", "cuda:0"}

\* The secondary ladder as the design states it, by the preferred device.
DesignLadder(dev) ==
    IF IsGpu(dev)
    THEN << <<"gpu", "int8_float16">>, <<"gpu", "int8">>, <<"cpu", "int8">> >>
    ELSE << <<"cpu", "int8_float16">>, <<"cpu", "int8">> >>

DeviceKind(dev) == IF IsGpu(dev) THEN "gpu" ELSE "cpu"

\* C8: the attempts are the preferred candidate, then the secondary ladder of
\* the preferred device's kind, in order; an attempt is made only after every
\* earlier one has failed.
C8_LadderOrder ==
    loader = "STTEngine" =>
    /\ \A i \in 1..Len(attempts) : \A j \in 1..(i - 1) : ~attempts[j].ok
    /\ Len(attempts) >= 1 =>
          /\ attempts[1].kwargs.device = PreferredDevice
          /\ attempts[1].kwargs.compute_type = PreferredComputeType
    /\ \A i \in 2..Len(attempts) :
          i - 1 <= Len(DesignLadder(PreferredDevice)) =>
              /\ attempts[i].kwargs.model_size = requested.model_size
              /\ <<DeviceKind(attempts[i].kwargs.device),
                   attempts[i].kwargs.compute_type>>
                 = DesignLadder(PreferredDevice)[i - 1]

\* The order of C8 for the devices the ladder tests by name.
C8_LadderOrderNamedDevices == requested.device # "cuda:0" => C8_LadderOrder

\* C9: with every tier of the requested size failed, a last attempt is made
\* with the tiny model on (cpu, int8) exactly when the requested size is not
\* tiny; for tiny the load fails without a further attempt.  The last resort
\* is not tried while a tier of the requested size has loaded.
C9_LastResort ==
    (loader = "STTEngine" /\ LoadDone) =>
        IF TiersAllFail
        THEN IF requested.model_size # "tiny"
             THEN /\ Len(attempts) = NumTiers + 1
                  /\ attempts[NumTiers + 1].kwargs.model_size = "tiny"
                  /\ attempts[NumTiers + 1].kwargs.device = "cpu"
                  /\ attempts[NumTiers + 1].kwargs.compute_type = "int8"
                  /\ (l_pc = "loaded") <=> instantiate[NumTiers + 1]
             ELSE /\ Len(attempts) = NumTiers
                  /\ l_pc = "raised"
        ELSE Len(attempts) <= NumTiers

C9_Witness ==
    /\ l_pc = "loaded"
    /\ requested.model_size = "medium"
    /\ model_size = "tiny"
    /\ TiersAllFail
    /\ attempts[Len(attempts)].kwargs = TinyKwargs

\* C10: a load that fails has one failure record per instantiation attempt,
\* in attempt order, each naming the configuration of its attempt.
C10_FullHistory ==
    (loader = "STTEngine" /\ l_pc = "raised") =>
        /\ Len(error_messages) = Len(attempts)
        /\ \A i \in 1..Len(attempts) :
              /\ ~attempts[i].ok
              /\ error_messages[i].device = attempts[i].kwargs.device
              /\ error_messages[i].compute_type = attempts[i].kwargs.compute_type
              /\ error_messages[i].stage =
                    (IF i = 1 THEN "primary"
                     ELSE IF i <= NumTiers THEN "fallback" ELSE "tiny")

C10_Witness ==
    /\ l_pc = "raised"
    /\ Len(attempts) = 4
    /\ Len(error_messages) = 4
    /\ error_messages[4].stage = "tiny"

----------------------------------------------------------------------------
(* Properties of the candidates of a load, checked under SpecLoad.          *)

\* The accelerator probe met no failure.
ProbeSucceeded == cuda_probe = "ok"

\* The caller left the device to the loader.
AutoDevice == requested.device = None

IsCandidate(i, dev, ct) ==
    /\ attempts[i].kwargs.device = dev
    /\ attempts[i].kwargs.compute_type = ct

\* C23: with no explicit device or precision, the first load attempt is
\* (cuda, float16) exactly when the caller requested acceleration and the
\* accelerator probe succeeded; when acceleration was not requested or the
\* probe failed, no attempt of that load is on the GPU.
C23_GpuFirstIffRequestedAndUsable ==
    (AutoDevice /\ Len(attempts) >= 1 /\ loader \in ServingLoaders)
    => /\ requested.compute_type = None
          => (IsCandidate(1, "cuda", "float16") <=> (use_gpu /\ ProbeSucceeded))
       /\ ~(use_gpu /\ ProbeSucceeded)
          => \A i \in 1..Len(attempts) : attempts[i].kwargs.device = "cpu"

\* A load on a host whose probe failed has gone down the whole CPU ladder.
C23_Witness ==
    /\ loader = "STTEngine"
    /\ AutoDevice
    /\ requested.compute_type = None
    /\ use_gpu
    /\ cuda_probe = "alloc_raises"
    /\ l_pc = "raised"
    /\ Len(attempts) = 4
    /\ IsCandidate(1, "cpu", "int8")

\* A load with acceleration requested and usable has tried the GPU first.
C23_WitnessGpu ==
    /\ AutoDevice
    /\ use_gpu
    /\ ProbeSucceeded
    /\ l_pc = "loaded"
    /\ Len(attempts) = 2
    /\ IsCandidate(1, "cuda", "float16")

\* The precision the size-keyed CPU policy names (engine.py 85).
CpuPolicy(size) == IF size \in LargeSizes THEN "int8" ELSE "int8_float16"

\* The attempts made on the CPU with the requested size.
CpuAttempts ==
    {i \in 1..Len(attempts) :
        /\ attempts[i].kwargs.device = "cpu"
        /\ attempts[i].kwargs.model_size = requested.model_size}

\* C24: in every load of STTEngine without an explicit precision, the first
\* CPU candidate for the requested size is (cpu, int8) for medium and the
\* large sizes and (cpu, int8_float16) for tiny, base and small, both when
\* the CPU is the preferred device and when it is reached after the GPU
\* attempts failed.
C24_CpuCandidateBySize ==
    (loader = "STTEngine" /\ requested.compute_type = None /\ CpuAttempts # {})
    => LET first == CHOOSE i \in CpuAttempts : \A j \in CpuAttempts : i <= j
       IN  attempts[first].kwargs.compute_type = CpuPolicy(requested.model_size)

\* The part of C24 that holds: the policy is followed when the CPU is the
\* preferred device, and for the larger sizes also after the GPU attempts.
C24_CpuPreferredBySize ==
    (/\ loader = "STTEngine"
     /\ requested.compute_type = None
     /\ CpuAttempts # {}
     /\ \/ attempts[1].kwargs.device = "cpu"
        \/ /\ attempts[1].kwargs.device = "cuda"
           /\ requested.model_size \in LargeSizes)
    => LET first == CHOOSE i \in CpuAttempts : \A j \in CpuAttempts : i <= j
       IN  attempts[first].kwargs.compute_type = CpuPolicy(requested.model_size)

SimpleLoaders == {"SpeechToText", "test_whisper_model"}

\* What the loader's own probe answered.
ProbeVerdict ==
    IF loader = "SpeechToText" THEN SimpleProbe(cuda_probe)
    ELSE TestProbe(cuda_probe)

C26_WitnessApp ==
    /\ loader = "SpeechToText"
    /\ use_gpu
    /\ l_pc = "loaded"
    /\ Len(attempts) = 2
    /\ ~attempts[1].ok
    /\ model = SimpleKwargs(model_size, "cpu", "int8")

\* The thread count an attempt on `dev` is to be given.
ThreadsFor(dev) == IF dev = "cpu" THEN "self.cpu_threads" ELSE None

\* C27: STTEngine passes the configured thread count to every load attempt
\* whose device is the CPU and to no attempt on a GPU, so whenever the loaded
\* model runs on the CPU, the thread count that get_status reports is the one
\* the model was instantiated with, the last resort included.
C27_ThreadsPassedOnCpu ==
    loader = "STTEngine"
    => /\ \A i \in 1..Len(attempts) :
              attempts[i].kwargs.cpu_threads = ThreadsFor(attempts[i].kwargs.device)
       /\ (status # NoStatus /\ status.error = None /\ status.device = "cpu")
          => status.cpu_threads = model.cpu_threads

\* The part of C27 that holds: every attempt at the requested size is given
\* the thread count exactly when its device is the CPU, and the status of a
\* model loaded by one of them reports the count it was given.
C27_TiersPassThreads ==
    loader = "STTEngine"
    => /\ \A i \in 1..Len(attempts) :
              attempts[i].kwargs # TinyKwargs
              => attempts[i].kwargs.cpu_threads
                    = ThreadsFor(attempts[i].kwargs.device)
       /\ (status # NoStatus /\ status.error = None /\ status.device = "cpu"
           /\ model # TinyKwargs)
          => status.cpu_threads = model.cpu_threads

----------------------------------------------------------------------------
(* Termination of a load, checked under SpecLoadFair.                       *)

\* How far a load has come: the probe and the choice of device, the
\* preferred candidate, the secondary tiers in order, the last resort, the
\* end.
Rank ==
    CASE l_pc \in {"resolve", "gpu_first", "test_gpu_first"} -> 0
      [] l_pc \in {"primary", "cpu_only", "test_cpu"} -> 1
      [] l_pc = "fallback" -> 1 + fb_idx
      [] l_pc = "last_resort" -> MaxAttempts
      [] l_pc \in {"loaded", "raised"} -> MaxAttempts + 1

\* The most instantiation attempts a load may make: five with a GPU as the
\* preferred device, four with the CPU; two in the simple loaders.
AttemptBound ==
    IF loader # "STTEngine" THEN 2
    ELSE IF Len(attempts) >= 1 /\ IsGpu(attempts[1].kwargs.device) THEN 5
    ELSE 4

\* C28: a load always terminates, with a loaded model or with the load
\* error, after at most five instantiation attempts when a GPU is preferred
\* and at most four when the CPU is preferred, and no step of it goes back
\* to an earlier tier.
C28_LoadTerminates ==
    /\ <>LoadDone
    /\ [](Len(attempts) <= AttemptBound)
    /\ [][(l_pc' # l_pc \/ attempts' # attempts) => Rank' > Rank]_vars

\* A load with the GPU preferred has ended after its fifth attempt.
C28_Witness ==
    /\ loader = "STTEngine"
    /\ LoadDone
    /\ Len(attempts) = 5
    /\ attempts[1].kwargs.device = "cuda"
    /\ attempts[5].kwargs = TinyKwargs

----------------------------------------------------------------------------
(* Properties of one request, checked under SpecTranscribe.                 *)

TranscribeEnded == t_status \in {"returned", "raised"}

RequestEnded == result # "none"

\* C1: once a transcribe call whose extraction succeeded has returned or
\* raised, the extracted audio file is no longer on disk.
C1_ExtractedAudioDeleted ==
    (TranscribeEnded /\ extracted # NoPath) => extracted \notin disk

\* The temporary file holding the recorded or buffered audio of a
\* record-and-transcribe call.
RecordingFile ==
    IF entry \in {"STTEngine.transcribe", "STTEngine.transcribe_microphone"}
    THEN temp_file
    ELSE IF entry = "SpeechToText.transcribe_from_microphone" THEN temp_path
    ELSE NoPath

\* C2: when a record-and-transcribe call has returned or raised, its
\* transcription having succeeded or failed, the temporary file of its
\* recorded or buffered audio is no longer on disk.
C2_RecordingDeleted ==
    (RequestEnded /\ TranscribeEnded /\ RecordingFile # NoPath)
    => RecordingFile \notin disk

\* The part of C2 that is about STTEngine.
C2_EngineRecordingDeleted ==
    (/\ RequestEnded
     /\ entry \in {"STTEngine.transcribe", "STTEngine.transcribe_microphone"})
    => C2_RecordingDeleted

IsRemoval(e) == e.op \in {"delete", "delete_missing"}

\* C3: a file is removed only by the frame that created it, and no file is
\* the target of two removal attempts.
C3_SingleDeleter ==
    \A i \in 1..Len(events) :
        IsRemoval(events[i]) =>
            \A j \in 1..(i - 1) :
                events[j].path = events[i].path =>
                    /\ events[j].op = "create"
                    /\ events[j].by = events[i].by

\* C4: for a one-shot segment sequence the count reported is the number of
\* segments the inference yielded, those joined into the text.
C4_SegmentCount ==
    (t_status = "returned" /\ seg_kind = "generator")
    => segments_count = Len(yielded)

RECURSIVE Offset(_, _)
\* Where segment i starts in the joined text: after the earlier segments and
\* one space each.
Offset(segs, i) ==
    IF i = 1 THEN 0 ELSE Offset(segs, i - 1) + Len(segs[i - 1]) + 1

\* txt is the texts of segs in order, one space between neighbours.
IsSpaceJoin(txt, segs) ==
    /\ Len(segs) = 0 => txt = << >>
    /\ Len(segs) > 0 => Len(txt) = Offset(segs, Len(segs) + 1) - 1
    /\ \A i \in 1..Len(segs) :
          /\ SubSeq(txt, Offset(segs, i) + 1, Offset(segs, i) + Len(segs[i]))
             = segs[i]
          /\ i < Len(segs) => txt[Offset(segs, i) + Len(segs[i]) + 1] = " "

\* C5: the text returned is the segment texts in the order yielded, joined by
\* single spaces; with no segment it is the empty string.
C5_TextIsOrderedJoin ==
    t_status = "returned" => IsSpaceJoin(text, yielded)

C5_Witness ==
    /\ t_status = "returned"
    /\ yielded = << <<"a">>, <<"b", "c">> >>
    /\ text = <<"a", " ", "b", "c">>

C5_WitnessSilent ==
    /\ t_status = "returned"
    /\ yielded = << >>
    /\ text = << >>

\* C12: construction is all-or-nothing and stops at the first success.  An
\* attempt that succeeded is the last one made; a construction that ended
\* either holds the model of its single successful attempt or has raised
\* with no attempt succeeded and no model; a model is held, and a status is
\* served, only by an instance whose construction succeeded.
C12_AllOrNothing ==
    /\ \A i \in 1..Len(attempts) : attempts[i].ok => i = Len(attempts)
    /\ l_pc = "loaded" =>
          /\ Len(attempts) >= 1
          /\ attempts[Len(attempts)].ok
          /\ model = attempts[Len(attempts)].kwargs
          /\ model # NoModel
    /\ l_pc = "raised" =>
          /\ \A i \in 1..Len(attempts) : ~attempts[i].ok
          /\ model = NoModel
    /\ l_pc \notin {"loaded", "raised"} => model = NoModel
    /\ status # NoStatus => (l_pc = "loaded" /\ model # NoModel)

\* A SpeechToText whose GPU attempt failed and whose CPU attempt loaded, and
\* that has served a status request.
C12_Witness ==
    /\ loader = "SpeechToText"
    /\ l_pc = "loaded"
    /\ Len(attempts) = 2
    /\ ~attempts[1].ok /\ attempts[2].ok
    /\ model = SimpleKwargs(model_size, "cpu", "int8")
    /\ status # NoStatus

\* An STTEngine that raised after its whole ladder: no model, no instance.
C12_WitnessRaised ==
    /\ loader = "STTEngine"
    /\ l_pc = "raised"
    /\ Len(attempts) = MaxAttempts
    /\ model = NoModel
    /\ status = NoStatus

\* The probe met an exception at one of its steps.
ProbeException == cuda_probe \notin {"ok", "flag_false"}

\* C17: when a step of the accelerator probe raises (the flag, the tensor
\* allocation, the arithmetic, the release; for app.py also the import), the
\* probe answers "unavailable" and no exception leaves it: a construction
\* that left the device to the probe attempts CPU configurations only and
\* raises only after instantiation attempts, and a status request succeeds
\* and reports the accelerator as unavailable.
C17_ProbeFailureIsUnavailable ==
    (ProbeException /\ loader \in ServingLoaders) =>
        /\ loader = "STTEngine" => Probe(cuda_probe) = "False"
        /\ loader = "SpeechToText" => SimpleProbe(cuda_probe) = "False"
        /\ l_pc = "raised" => Len(attempts) >= 1
        /\ requested.device = None =>
              /\ \A i \in 1..Len(attempts) : attempts[i].kwargs.device = "cpu"
              /\ (loader = "STTEngine" /\ l_pc # "resolve") => device = "cpu"
        /\ status # NoStatus =>
              /\ status.error = None
              /\ status.cuda_available = FALSE

\* An engine asked to use the accelerator whose probe raised in the
\* arithmetic has loaded on the CPU and has served a status request.
C17_Witness ==
    /\ loader = "STTEngine"
    /\ cuda_probe = "arith_raises"
    /\ use_gpu
    /\ requested.device = None
    /\ l_pc = "loaded"
    /\ device = "cpu"
    /\ attempts[Len(attempts)].kwargs.device = "cpu"
    /\ status # NoStatus
    /\ status.cuda_available = FALSE
    /\ status.error = None

----------------------------------------------------------------------------
(* Properties of the order of inference and removal, checked under          *)
(* SpecTranscribe.                                                          *)

\* The files the transcribe call itself created: the audio extracted from a
\* video, the file written from a buffer.
CreatedByCall ==
    {events[i].path : i \in {j \in 1..Len(events) :
                                /\ events[j].op = "create"
                                /\ events[j].by = "transcribe"}}

Deletions(p) ==
    {i \in 1..Len(events) : events[i].op = "delete" /\ events[i].path = p}

\* The call has failed, or nothing is left to decode: the segments were
\* handed over as a list, or the generator has yielded all of them.
SequenceSettled ==
    \/ error # None
    \/ seg_kind = "list"
    \/ seg_kind = "generator" /\ segments = << >>

\* C25: within one transcribe call, a temporary audio file created by that
\* call is not deleted before the lazy segment sequence has been fully
\* consumed or has failed, and it is deleted at most once.
C25_DeletedAfterConsumptionOnce ==
    \A p \in CreatedByCall :
        /\ Deletions(p) # {} => SequenceSettled
        /\ Cardinality(Deletions(p)) <= 1

\* SpeechToText.transcribe has removed the audio it extracted, after a
\* generator yielded its segments.
C25_Witness ==
    /\ entry = "SpeechToText.transcribe"
    /\ t_status = "returned"
    /\ seg_kind = "generator"
    /\ Len(yielded) = MaxSegments
    /\ extracted \in CreatedByCall
    /\ Cardinality(Deletions(extracted)) = 1

\* STTEngine.transcribe has removed the file it wrote from a buffer.
C25_WitnessBuffer ==
    /\ entry = "STTEngine.transcribe"
    /\ t_status = "returned"
    /\ seg_kind = "generator"
    /\ Len(yielded) = MaxSegments
    /\ temp_file \in CreatedByCall
    /\ Cardinality(Deletions(temp_file)) = 1

----------------------------------------------------------------------------
(* Properties of audio extraction, checked under SpecTranscribe.            *)

\* An extraction inside transcribe has just handed back a path.
ExtractionReturned == t_pc \in {"e_infer", "a_infer"} /\ extracted # NoPath

\* convert_video_to_audio has returned.
ConversionReturned == entry = "convert_video_to_audio" /\ result = "returned"

\* C15: an audio path handed back by an extraction (_extract_audio_from_video,
\* extract_audio_from_video, convert_video_to_audio) names a file that exists
\* and is not zero bytes long; with the output missing or empty the
\* extraction reports failure instead.
C15_ExtractionReportsFailure ==
    /\ ExtractionReturned => Usable(extracted)
    /\ (ConversionReturned /\ conversion.ok) => Usable(conversion.path)
    /\ (ConversionReturned /\ ~conversion.ok) => conversion.path = NoPath

\* The part of C15 about utils.convert_video_to_audio.
C15_ConversionReportsFailure ==
    ConversionReturned =>
        /\ conversion.ok => Usable(conversion.path)
        /\ ~conversion.ok => conversion.path = NoPath
        /\ conversion.ok <=> (temp_file # NoPath /\ Usable(temp_file))

\* The extraction of this request failed: it raised inside transcribe, or
\* convert_video_to_audio returned failure.
ExtractionFailed ==
    \/ error \in {"RuntimeError", "extraction"}
    \/ ConversionReturned /\ ~conversion.ok

\* The file the failed extraction was writing.
ExtractionOutput ==
    IF entry = "convert_video_to_audio" THEN temp_file
    ELSE ExtractedAudioPath(audio_path)

\* C16: after a failed extraction the file that extraction was writing is not
\* on disk.
C16_FailedExtractionLeavesNothing ==
    ExtractionFailed => ExtractionOutput \notin disk

\* The part of C16 that holds: convert_video_to_audio removes its temporary
\* file when the conversion tool itself reports the error.
C16_ToolErrorCleansUp ==
    (/\ ConversionReturned
     /\ \E i \in 1..Len(events) : events[i] = Ev("delete", temp_file, "convert"))
    => temp_file \notin disk

----------------------------------------------------------------------------
(* Properties of the errors and parameters of a request, checked under      *)
(* SpecTranscribe.                                                          *)

EngineEntries == {"STTEngine.transcribe", "STTEngine.transcribe_microphone"}

\* C18: a failure inside STTEngine.transcribe (extraction, inference, writing
\* or reading a file) reaches the caller as TranscriptionError.
C18_ErrorsWrapped ==
    (entry \in EngineEntries /\ t_status = "raised")
    => error = "TranscriptionError"

\* The part of C18 that holds: a call that raised has handed back no text
\* and no details.
C18_NoPartialResult ==
    (entry \in EngineEntries /\ t_status = "raised")
    => /\ text = << >>
       /\ details = NoConfig
       /\ segments_count = 0

\* The inference capability has been handed transcribe_params.
Invoked ==
    /\ transcribe_params # NoKwargs
    /\ \/ seg_kind # None
       \/ error = "inference"

Named(k) == k \in DOMAIN kwargs

Passed(k) == k \in DOMAIN transcribe_params

\* C20: unless the caller overrides a parameter, every invocation of the
\* inference capability by transcribe uses a beam width between 3 and 5,
\* voice-activity-detection filtering enabled with a 500 ms minimum-silence
\* threshold, and no conditioning on previous text; an override changes only
\* the parameter it names.
C20_DefaultProfile ==
    Invoked
    => /\ ~Named("beam_size")
          => /\ Passed("beam_size")
             /\ transcribe_params.beam_size \in 3..5
       /\ ~Named("vad_filter")
          => /\ Passed("vad_filter")
             /\ transcribe_params.vad_filter = TRUE
       /\ ~Named("vad_parameters")
          => /\ Passed("vad_parameters")
             /\ transcribe_params.vad_parameters.min_silence_duration_ms = 500
       /\ ~Named("condition_on_previous_text")
          => /\ Passed("condition_on_previous_text")
             /\ transcribe_params.condition_on_previous_text = FALSE
       /\ \A k \in DOMAIN kwargs :
             Passed(k) /\ transcribe_params[k] = kwargs[k]

\* The part of C20 that holds: STTEngine.transcribe passes its defaults with
\* exactly the named parameters replaced.
C20_EngineProfile ==
    (entry \in EngineEntries /\ Invoked)
    => /\ DOMAIN transcribe_params = DOMAIN DefaultParams \cup DOMAIN kwargs
       /\ \A k \in DOMAIN transcribe_params :
             transcribe_params[k] = IF Named(k) THEN kwargs[k] ELSE DefaultParams[k]
       /\ DefaultParams.beam_size \in 3..5

----------------------------------------------------------------------------
(* Properties of the extension checks, checked under SpecClassify.          *)

VideoChecks ==
    {"utils.is_video_file", "STTEngine._is_video_file",
     "SpeechToText.is_video_file"}

VideoKind == {".mp4", ".avi", ".mov", ".mkv", ".flv", ".wmv", ".webm"}

AudioKind == {".wav", ".mp3", ".flac", ".ogg", ".m4a"}

\* C19: every video check of the repository answers "video" exactly for the
\* seven video extensions, the audio check answers "audio" exactly for the
\* five audio extensions, and the video checks give the same answer for the
\* same path.
C19_ChecksClassifyAlike ==
    \A v \in verdict :
        /\ v.check \in VideoChecks
           => v.answer = (Lower(file_path.ext) \in VideoKind)
        /\ v.check = "utils.is_audio_file"
           => v.answer = (Lower(file_path.ext) \in AudioKind)
        /\ \A w \in verdict :
               (v.check \in VideoChecks /\ w.check \in VideoChecks)
               => v.answer = w.answer

\* The part of C19 that holds: the checks of utils.py and of STTEngine
\* classify as stated, and no path is both video and audio.
C19_UtilsAndEngineClassify ==
    \A v \in verdict :
        /\ v.check \in {"utils.is_video_file", "STTEngine._is_video_file"}
           => v.answer = (Lower(file_path.ext) \in VideoKind)
        /\ v.check = "utils.is_audio_file"
           => v.answer = (Lower(file_path.ext) \in AudioKind)
        /\ \A w \in verdict :
               (v.check = "utils.is_video_file" /\ w.check = "utils.is_audio_file")
               => ~(v.answer /\ w.answer)

----------------------------------------------------------------------------
(* Properties of normalize_audio, checked under SpecNormalize.              *)

One == Frac(1, 1)

Normalized == n_pc \in {"once", "twice"}

\* A buffer with samples whose peak absolute sample is at most 1.0.
PeakAtMostOne(data) ==
    /\ Len(data) > 0
    /\ \A i \in 1..Len(data) : FLeq(FAbs(data[i]), One)

\* A buffer with samples, all of them zero.
AllZero(data) ==
    /\ Len(data) > 0
    /\ \A i \in 1..Len(data) : data[i] = Zero

\* C21: normalize_audio returns a buffer that is already normalized (16 kHz,
\* peak absolute sample at most 1.0) unchanged, also when its peak is
\* strictly below 1.0.
C21_NormalizedUnchanged ==
    (Normalized /\ sample_rate = TargetRate /\ PeakAtMostOne(audio_data))
    => /\ ~normalized.raised
       /\ normalized.data = audio_data

\* The part of C21 that holds: a 16 kHz buffer whose peak is exactly 1.0 or
\* 0 comes back unchanged, and normalizing the output again changes nothing.
C21_SecondCallIsNoOp ==
    /\ (Normalized /\ sample_rate = TargetRate /\ Len(audio_data) > 0
        /\ Peak(audio_data) \in {One, Zero})
       => normalized.data = audio_data
    /\ n_pc = "twice"
       => /\ ~renormalized.raised
          /\ renormalized.data = normalized.data

\* C22: normalize_audio applied to an all-zero buffer performs no division,
\* raises no error and returns an all-zero buffer.
C22_ZeroBufferUntouched ==
    (Normalized /\ AllZero(audio_data))
    => /\ ~normalized.raised
       /\ ~normalized.divided
       /\ AllZero(normalized.data)
       /\ Len(normalized.data) = Len(audio_data)

\* A silent buffer at a rate that is resampled has been normalized.
C22_Witness ==
    /\ n_pc = "once"
    /\ AllZero(audio_data)
    /\ Len(audio_data) >= 2
    /\ sample_rate # TargetRate
    /\ normalized = Outcome(FALSE, audio_data, FALSE)

----------------------------------------------------------------------------
(* Properties of a constructed instance that serves, checked under         *)
(* SpecServe.                                                               *)

\* The instantiation attempts of this load that succeeded.
Succeeded == {i \in 1..Len(attempts) : attempts[i].ok}

\* The configuration of the one attempt that succeeded.
LoadedConfig ==
    LET kw == attempts[CHOOSE i \in Succeeded : TRUE].kwargs
    IN [model_size |-> kw.model_size, device |-> kw.device,
        compute_type |-> kw.compute_type]

\* C11: once the load has succeeded, in every later state (after any number
\* of status requests and transcription steps, a status request possibly in
\* the middle of a transcription) exactly one attempt has succeeded, the
\* engine's model size, device and precision are those of that attempt, and
\* every status snapshot and every details dict built report them.
C11_ReportedConfigIsLoaded ==
    l_pc = "loaded" =>
        /\ Cardinality(Succeeded) = 1
        /\ model.model_size = LoadedConfig.model_size
        /\ model.device = LoadedConfig.device
        /\ model.compute_type = LoadedConfig.compute_type
        /\ model_size = LoadedConfig.model_size
        /\ loader = "STTEngine" =>
              /\ device = LoadedConfig.device
              /\ compute_type = LoadedConfig.compute_type
              /\ (status # NoStatus =>
                    /\ status.model_size = LoadedConfig.model_size
                    /\ status.device = LoadedConfig.device
                    /\ status.compute_type = LoadedConfig.compute_type)
              /\ (details # NoConfig => details = LoadedConfig)
        /\ loader = "SpeechToText" =>
              (status # NoStatus => status.model_size = LoadedConfig.model_size)

\* A transcription has returned its details and a status was taken on an
\* engine that asked for medium on the accelerator and loaded tiny on the CPU.
C11_Witness ==
    /\ l_pc = "loaded"
    /\ requested.model_size = "medium"
    /\ attempts[1].kwargs.device = "cuda"
    /\ t_status = "returned"
    /\ details = [model_size |-> "tiny", device |-> "cpu", compute_type |-> "int8"]
    /\ status # NoStatus
    /\ status.model_size = "tiny"

----------------------------------------------------------------------------
(* Properties of two requests in flight together, checked under            *)
(* SpecConcurrent.                                                          *)

InFlight(r) == c_pc[r] \notin {"idle", "done"}

\* C13: two requests in flight together that were given different video
\* paths and have both extracted audio hold different extraction paths.
C13_DistinctExtractionPaths ==
    \A r1, r2 \in Reqs :
        (/\ r1 # r2
         /\ InFlight(r1) /\ InFlight(r2)
         /\ c_input[r1] # c_input[r2]
         /\ c_extracted[r1] # NoPath /\ c_extracted[r2] # NoPath)
        => c_extracted[r1] # c_extracted[r2]

\* The extraction paths differ when the stems of the two inputs differ.
C13_DistinctStems ==
    \A r1, r2 \in Reqs :
        (/\ r1 # r2
         /\ c_extracted[r1] # NoPath /\ c_extracted[r2] # NoPath
         /\ <<c_input[r1].base, c_input[r1].n_audio>>
               # <<c_input[r2].base, c_input[r2].n_audio>>)
        => c_extracted[r1] # c_extracted[r2]

\* C14: no request writes or removes a temporary file that another request
\* in flight made and has not removed.
C14_NoInterference == c_hits = {}

\* The part of C14 about arrays: the temporary file of an array given to
\* STTEngine.transcribe is written and removed by its own request only.
C14_BufferFilesPrivate ==
    \A h \in c_hits : \A r \in Reqs : c_input[r] = Buffer => h.path # c_temp[r]

====
